---------------------------- MODULE Spec2Model ----------------------------
(***************************************************************************)
(* State-machine model of the ingestion service:                           *)
(*   Source -> Transform chain -> Sink (SQL batch sink, or parallel ILP    *)
(*   sink = coordinator + workers), and the HTTP intake in front of the    *)
(*   source queue.                                                         *)
(*                                                                         *)
(* Spec      the pipeline (Pipeline::run with one of the three sinks)      *)
(* HttpSpec  the HTTP ingest handlers and the bounded source queue         *)
(***************************************************************************)
EXTENDS Integers, Sequences, FiniteSets, TLC

\* ------------------------------------------------------------ bounds
MaxItems == 3
MaxWorkers == 2
MaxBatch == 2
MaxRetries == 2
HashRange == 2
RetryBackoffMs == 10
MaxHandlers == 2
MaxCapacity == 2
MaxRecords == 2
MaxBody == 2
MaxLineBytes == 1
PostCapacity == 5
PostRecords == 10
MaxMetric == 1
MaxTransforms == 2
MaxStr == 2
MaxEncodes == 2
LastTs == 2
MaxCalls == 2
MaxRuns == 2

Keys == {"k1", "k2"}

\* f64 values: the finite ones are integers, and NaN and the two infinities.
Finite(v) == [class |-> "finite", v |-> v]
NaN == [class |-> "nan", v |-> 0]
PosInf == [class |-> "inf", v |-> 1]
NegInf == [class |-> "inf", v |-> -1]
F64 == {NaN, PosInf, NegInf} \cup {Finite(v) : v \in -MaxMetric .. MaxMetric}

\* f64::is_finite
is_finite(a) == a.class = "finite"

\* The < of f64 (PartialOrd): false whenever an operand is NaN.
f64_lt(a, b) ==
    /\ a.class # "nan" /\ b.class # "nan"
    /\ \/ a.class = "inf" /\ a.v < 0 /\ b # a
       \/ b.class = "inf" /\ b.v > 0 /\ b # a
       \/ a.class = "finite" /\ b.class = "finite" /\ a.v < b.v

Metrics == {Finite(-1), Finite(1)}
Tasks == 0 .. (MaxWorkers - 1)
NoEnv == 0

SourceKinds == {"backfill", "http"}

VARIABLES
    cfg,        \* configuration record of the run
    emitted,    \* items the source stream has yielded so far (index = envelope id)
    srcEnded,   \* the source stream has returned None
    srcErr,     \* the source stream has yielded Err(PipelineError::Source)
    result,     \* what Pipeline::run returned: "running", "Ok", "Sink", "Source"
    pc,         \* per sink task: position in run()
    buffer,     \* per sink task: the Vec<Envelope> of run()
    attempt,    \* per sink task: flush_batch's attempt counter
    payload,    \* per ILP worker: flush_batch's encoded payload
    sleeps,     \* per sink task: sleeps made by the current flush_batch, in ms
    wres,       \* per ILP worker: what the spawned sink.run returned
    chan,       \* per ILP worker: content of its mpsc channel
    rxOpen,     \* per ILP worker: the receiver of its channel is alive
    txOpen,     \* the coordinator still holds txs
    conn,       \* per ILP worker: its current TcpStream, numbered in the order it opened them
    cpc,        \* coordinator position in QuestDbIlpParallelSink::run
    held,       \* envelope the coordinator's pending send holds (NoEnv = none)
    joinIdx,    \* index of the join handle the coordinator awaits
    log,        \* per sink task: every write attempt it made, in order
    flushed,    \* envelopes that were part of a successful flush
    rejected,   \* envelopes a transform rejected
    metrics     \* counter name -> value

pvars == <<cfg, emitted, srcEnded, srcErr, result, pc, buffer, attempt, payload,
           sleeps, wres, chan, rxOpen, txOpen, conn,  cpc, held,
           joinIdx, log, flushed, rejected, metrics>>

VARIABLES
    hcfg,         \* the arguments of HttpJsonSource::new / HttpGenerationOutputSource::new
    queue,        \* content of the source queue, mpsc::channel(channel_capacity)
    rxAlive,      \* the queue's receiver has not been dropped
    delivered,    \* envelopes the ReceiverStream has yielded, in order
    hpc,          \* per handler: "idle", "loop" (in its record loop), "done" (answered)
    req,          \* per handler: the request it serves
    seen,         \* per handler: array elements / body lines its loop has taken so far
    status,       \* per handler: the HTTP status it answered (0 = not yet)
    accepted,     \* per NDJSON handler: its accepted counter
    parse_errors  \* per NDJSON handler: its parse_errors counter

hvars == <<hcfg, queue, rxAlive, delivered, hpc, req, seen, status, accepted,
           parse_errors>>

VARIABLES
    venv,       \* the input of a pure function: an envelope, its payload, or
                \* the tables the recompute job reads
    vresult     \* what the function returned.  Validation: "none" (not called
                \* yet), "ok", or the message of its PipelineError::Transform

tvars == <<venv, vresult>>

vars == <<pvars, hvars, tvars>>

\* The HTTP intake takes no step.
httpIdle == UNCHANGED <<hvars, tvars>>

\* The pipeline takes no step.
pipelineIdle == UNCHANGED <<pvars, tvars>>


\* ------------------------------------------------------------ configuration
\* SinkConfig / PipelineConfig: the values main hands to the sinks.  hash is
\* the value DefaultHasher (fixed keys, so a fixed function of the key's bytes
\* for the whole run) gives each shard key; its values are not computed here,
\* every function into 0 .. HashRange-1 is explored.
Configs ==
    { [record |-> r, sink |-> "pgwire", source |-> s, transforms |-> n,
       workers |-> 1, batch_size |-> b, max_retries |-> m,
       hash |-> [k \in Keys |-> 0]] :
         r \in {"meter_usage", "generation_output"}, s \in SourceKinds,
         n \in 0 .. 1, b \in 1 .. MaxBatch, m \in 0 .. MaxRetries }
    \cup
    { c \in [record : {"meter_usage"}, sink : {"ilp"}, source : SourceKinds,
              transforms : {1}, workers : 0 .. MaxWorkers, batch_size : 1 .. MaxBatch,
              max_retries : 0 .. MaxRetries, hash : [Keys -> 0 .. (HashRange - 1)]] :
         \* with one worker every key maps to index 0, whatever the hash
         c.workers <= 1 => c.hash = [k \in Keys |-> 0] }

Max(a, b) == IF a >= b THEN a ELSE b

\* QuestDbIlpParallelSink::new keeps workers.max(1).
Workers == Max(cfg.workers, 1)

Bump(m, name, n) == [m EXCEPT ![name] = @ + n]

CounterNames ==
    { "questdb_ingested_records_total", "questdb_sink_errors_total",
      "questdb_generation_sink_errors_total", "questdb_ilp_retry_total",
      "questdb_ilp_sink_errors_total", "validation_meter_usage_rejected_total",
      "validation_generation_output_rejected_total" }

\* ------------------------------------------------------------ transform
\* The time axis is scaled: the sanity window is [MinTs, MaxTs].
MinTs == 0
MaxTs == 3

validate_meter_usage(m) ==
    IF f64_lt(m.metric, Finite(0)) THEN "kwh must be non-negative"
    ELSE IF m.ts < MinTs \/ m.ts > MaxTs THEN "timestamp out of allowed range"
    ELSE "ok"

validate_generation_output(g) ==
    IF f64_lt(g.metric, Finite(0)) THEN "mw must be non-negative"
    ELSE IF g.ts < MinTs \/ g.ts > MaxTs THEN "timestamp out of allowed range"
    ELSE "ok"

\* Mutant: each validation transform increments the other kind's counter.
ValidationApplyOtherCounter(item) ==
    IF cfg.record = "meter_usage"
    THEN [verdict |-> validate_meter_usage(item),
          counter |-> "validation_generation_output_rejected_total"]
    ELSE [verdict |-> validate_generation_output(item),
          counter |-> "validation_meter_usage_rejected_total"]

\* Transform::apply of MeterUsageValidation / GenerationOutputValidation:
\* the verdict and the counter it increments on a rejection.
ValidationApply(item) ==
    IF cfg.record = "meter_usage"
    THEN [verdict |-> validate_meter_usage(item),
          counter |-> "validation_meter_usage_rejected_total"]
    ELSE [verdict |-> validate_generation_output(item),
          counter |-> "validation_generation_output_rejected_total"]

\* ------------------------------------------------------------ source stream
NoneItem == [kind |-> "none", key |-> "k1", metric |-> Finite(1), ts |-> 1]
ErrItem == [kind |-> "err", key |-> "k1", metric |-> Finite(1), ts |-> 1]
OkItems == { [kind |-> "ok", key |-> k, metric |-> m, ts |-> 1] : k \in Keys, m \in Metrics }

\* What source.stream() can yield at the next poll.  The backfill stream
\* (try_stream!) yields an envelope per line, ends at end of file, and yields
\* Err(PipelineError::Source) at a malformed line, after which it has ended.
\* The HTTP stream (ReceiverStream over the source queue, .map(Ok)) yields
\* envelopes only and never ends: its sender lives in the server task.
RawItems ==
    IF srcEnded THEN {NoneItem}
    ELSE IF cfg.source = "backfill"
         THEN {NoneItem} \cup
              (IF Len(emitted) < MaxItems THEN {ErrItem} \cup OkItems ELSE {})
         ELSE IF Len(emitted) < MaxItems THEN OkItems ELSE {}

\* Mutant: a transform is handed the items an earlier transform rejected, and
\* lets them through.
RECURSIVE ThroughTransformsRevive(_, _)
ThroughTransformsRevive(n, item) ==
    IF n = 0 THEN [kind |-> item.kind, rejections |-> 0]
    ELSE LET prev == ThroughTransformsRevive(n - 1, item) IN
         IF item.kind = "ok" /\ ValidationApply(item).verdict # "ok"
         THEN [kind |-> IF prev.kind = "ok" THEN "err" ELSE "ok",
               rejections |-> prev.rejections + 1]
         ELSE prev

\* Pipeline::run, the transform chain (lines 56-67): item after n transforms.
\* An Ok item is handed to the transform, an Err item passes through.
RECURSIVE ThroughTransforms(_, _)
ThroughTransforms(n, item) ==
    IF n = 0 THEN [kind |-> item.kind, rejections |-> 0]
    ELSE LET prev == ThroughTransforms(n - 1, item) IN
         IF prev.kind = "ok" /\ ValidationApply(item).verdict # "ok"
         THEN [kind |-> "err", rejections |-> prev.rejections + 1]
         ELSE prev

\* The effect on the stream's own state of one input.next() that yields raw,
\* seen by the sink as out.
StreamStep(raw, out) ==
    /\ emitted' = IF raw.kind = "none" THEN emitted ELSE Append(emitted, raw)
    /\ srcEnded' = (srcEnded \/ raw.kind \in {"none", "err"})
    /\ srcErr' = (srcErr \/ raw.kind = "err")
    /\ rejected' = IF raw.kind = "ok" /\ out.kind = "err"
                   THEN rejected \cup {Len(emitted) + 1} ELSE rejected
    /\ metrics' = Bump(metrics, ValidationApply(raw).counter, out.rejections)

\* ------------------------------------------------------------ flush_batch
\* Mutant: a fixed backoff.
SleepForFlat(att) == RetryBackoffMs

\* The sleep before the retry that follows the attempt-th failure.
SleepFor(att) == RetryBackoffMs * att

\* Mutant: the guard of the retry arm off by one.
FlushArmOneMore(ok, att) ==
    IF ok THEN "ok"
    ELSE IF att <= cfg.max_retries THEN "retry"
    ELSE "fatal"

\* Mutant: the write that fails with no retry left is taken as a success.
FlushArmSwallow(ok, att) ==
    IF ok THEN "ok"
    ELSE IF att < cfg.max_retries THEN "retry"
    ELSE "ok"

\* The arm of flush_batch's match that a write result selects.
FlushArm(ok, att) ==
    IF ok THEN "ok"
    ELSE IF att < cfg.max_retries THEN "retry"
    ELSE "fatal"

\* Mutant: the test lets the buffer grow one envelope past batch_size.
BatchFullLate(buf) == Len(buf) > cfg.batch_size

\* run()'s test after buffer.push(env).
BatchFull(buf) == Len(buf) >= cfg.batch_size

SqlErrorCounter ==
    IF cfg.record = "meter_usage" THEN "questdb_sink_errors_total"
    ELSE "questdb_generation_sink_errors_total"

\* ------------------------------------------------------------ SQL sink
ilpIdle == UNCHANGED <<payload, wres, chan, rxOpen, txOpen, conn,  cpc, held, joinIdx>>

\* QuestDbSink::run / QuestDbGenerationSink::run: one turn of the while loop,
\* or the step after the stream ended.
SqlRun ==
    /\ cfg.sink = "pgwire" /\ pc[0] = "recv"
    /\ httpIdle
    /\ \E raw \in RawItems :
         LET out == ThroughTransforms(cfg.transforms, raw)
             id == Len(emitted) + 1
             buf == Append(buffer[0], id)
         IN /\ StreamStep(raw, out)
            /\ IF out.kind = "none"
               THEN /\ UNCHANGED buffer
                    /\ pc' = [pc EXCEPT ![0] = IF buffer[0] = <<>> THEN "done" ELSE "final_flush"]
                    /\ result' = IF buffer[0] = <<>> THEN "Ok" ELSE result
               ELSE IF out.kind = "err"
               THEN UNCHANGED <<buffer, pc, result>>
               ELSE /\ buffer' = [buffer EXCEPT ![0] = buf]
                    /\ pc' = [pc EXCEPT ![0] = IF BatchFull(buf) THEN "flush" ELSE "recv"]
                    /\ UNCHANGED result
            /\ attempt' = [attempt EXCEPT ![0] = 0]
            /\ sleeps' = [sleeps EXCEPT ![0] = <<>>]
    /\ UNCHANGED <<cfg, log, flushed>>
    /\ ilpIdle

\* Mutant: a retry leaves out the first row of the batch.
insert_batch_split(batch) == IF attempt[0] > 0 THEN Tail(batch) ELSE batch

\* QuestDbSink::insert_batch / QuestDbGenerationSink::insert_batch: the rows
\* of the one INSERT, push_values over the batch in its order.
insert_batch(batch) == batch

\* QuestDbSink::flush_batch / QuestDbGenerationSink::flush_batch: one turn of
\* the loop (insert_batch and the arm its result selects), and what run()
\* does with a returned value.
SqlFlush ==
    /\ cfg.sink = "pgwire" /\ pc[0] \in {"flush", "final_flush"}
    /\ httpIdle
    /\ \E ok \in BOOLEAN :
         LET arm == FlushArm(ok, attempt[0]) IN
         /\ log' = [log EXCEPT ![0] = Append(@, [conn |-> 0, batch |-> insert_batch(buffer[0]),
                                sent |-> IF ok THEN Len(buffer[0]) ELSE 0, ok |-> ok])]
         /\ IF arm = "ok"
            THEN /\ metrics' = Bump(metrics, "questdb_ingested_records_total", Len(buffer[0]))
                 /\ flushed' = flushed \cup {buffer[0][i] : i \in 1 .. Len(buffer[0])}
                 /\ buffer' = [buffer EXCEPT ![0] = <<>>]
                 /\ pc' = [pc EXCEPT ![0] = IF pc[0] = "flush" THEN "recv" ELSE "done"]
                 /\ result' = IF pc[0] = "flush" THEN result ELSE "Ok"
                 /\ UNCHANGED <<attempt, sleeps>>
            ELSE IF arm = "retry"
            THEN /\ attempt' = [attempt EXCEPT ![0] = @ + 1]
                 /\ sleeps' = [sleeps EXCEPT ![0] = Append(@, SleepFor(attempt[0] + 1))]
                 /\ UNCHANGED <<metrics, flushed, buffer, pc, result>>
            ELSE /\ metrics' = Bump(metrics, SqlErrorCounter, 1)
                 /\ buffer' = [buffer EXCEPT ![0] = <<>>]
                 /\ pc' = [pc EXCEPT ![0] = "done"]
                 /\ result' = "Sink"
                 /\ UNCHANGED <<attempt, sleeps, flushed>>
    /\ UNCHANGED <<cfg, emitted, srcEnded, srcErr, rejected>>
    /\ ilpIdle

\* ------------------------------------------------------------ ILP encoding
\* event_id_meter_usage / event_id_generation: BLAKE3 over the payload fields,
\* kept as the tuple of the hashed fields (a collision-free digest).
event_id(item) == <<item.ts, item.key, item.metric>>

\* IlpEncode::write_ilp_line; env is carried along to tell apart the lines of
\* two envelopes with equal payloads.
write_ilp_line(id) ==
    [env |-> id, event_id |-> event_id(emitted[id]), key |-> emitted[id].key,
     metric |-> emitted[id].metric, ts |-> emitted[id].ts]

\* Mutant: the lines in reverse order.
encode_batch_reversed(batch) ==
    [i \in 1 .. Len(batch) |-> write_ilp_line(batch[Len(batch) + 1 - i])]

\* QuestDbIlpSink::encode_batch: one line per envelope, in buffer order.
encode_batch(batch) == [i \in 1 .. Len(batch) |-> write_ilp_line(batch[i])]

\* ------------------------------------------------------------ ILP worker
shard_key(item) == item.key

\* Mutant: an index that moves with the position in the stream.
shard_index_rotating(key, workers) == (cfg.hash[key] + Len(emitted)) % Max(workers, 1)

shard_index(key, workers) == cfg.hash[key] % Max(workers, 1)

\* Mutant: channels without room.
ChanCapNone == cfg.batch_size * 0

\* mpsc::channel(batch_size.saturating_mul(2))
ChanCap == cfg.batch_size * 2

\* What the end of a worker's run() leaves: the receiver is dropped with
\* whatever the channel still holds, the locals are gone.
WorkerReturn(w, res) ==
    /\ pc' = [pc EXCEPT ![w] = "done"]
    /\ wres' = [wres EXCEPT ![w] = res]
    /\ rxOpen' = [rxOpen EXCEPT ![w] = FALSE]
    /\ chan' = [chan EXCEPT ![w] = <<>>]
    /\ buffer' = [buffer EXCEPT ![w] = <<>>]

\* QuestDbIlpSink::run line 280: the initial connect.
WorkerConnect(w) ==
    /\ cfg.sink = "ilp" /\ pc[w] = "connect"
    /\ httpIdle
    /\ \E ok \in BOOLEAN :
         IF ok
         THEN /\ conn' = [conn EXCEPT ![w] = @ + 1]
              /\ pc' = [pc EXCEPT ![w] = "recv"]
              /\ UNCHANGED <<wres, rxOpen, chan, buffer>>
         ELSE /\ WorkerReturn(w, "Sink")
              /\ UNCHANGED conn
    /\ UNCHANGED <<cfg, emitted, srcEnded, srcErr, result, attempt, payload, sleeps,
                   txOpen, cpc, held, joinIdx, log, flushed, rejected, metrics>>

\* QuestDbIlpSink::run lines 283-301: one turn of the while loop over the
\* worker's channel, or the step after the channel was closed and drained.
WorkerRecv(w) ==
    /\ cfg.sink = "ilp" /\ pc[w] = "recv"
    /\ httpIdle
    /\ IF chan[w] # <<>>
       THEN LET buf == Append(buffer[w], Head(chan[w])) IN
            /\ chan' = [chan EXCEPT ![w] = Tail(@)]
            /\ buffer' = [buffer EXCEPT ![w] = buf]
            /\ pc' = [pc EXCEPT ![w] = IF BatchFull(buf) THEN "flush" ELSE "recv"]
            /\ payload' = [payload EXCEPT ![w] = IF BatchFull(buf) THEN encode_batch(buf) ELSE <<>>]
       ELSE /\ ~txOpen
            /\ pc' = [pc EXCEPT ![w] = IF buffer[w] = <<>> THEN "shutdown" ELSE "final_flush"]
            /\ payload' = [payload EXCEPT ![w] = encode_batch(buffer[w])]
            /\ UNCHANGED <<chan, buffer>>
    /\ attempt' = [attempt EXCEPT ![w] = 0]
    /\ sleeps' = [sleeps EXCEPT ![w] = <<>>]
    /\ UNCHANGED <<cfg, emitted, srcEnded, srcErr, result, wres, rxOpen, txOpen, conn,
                    cpc, held, joinIdx, log, flushed, rejected, metrics>>

\* QuestDbIlpSink::flush_batch lines 234-267: one turn of the loop (write_all
\* and the arm its result selects; the retry arm sleeps and reconnects), and
\* what run() does with a returned value.  A failed write_all has delivered
\* some proper prefix of the payload.
WorkerFlush(w) ==
    /\ cfg.sink = "ilp" /\ pc[w] \in {"flush", "final_flush"}
    /\ httpIdle
    /\ \E ok \in BOOLEAN, n \in 0 .. (Len(payload[w]) - 1), reconnected \in BOOLEAN :
         LET arm == FlushArm(ok, attempt[w]) IN
         /\ ok => n = 0
         /\ arm # "retry" => reconnected
         /\ log' = [log EXCEPT ![w] = Append(@, [conn |-> conn[w], batch |-> payload[w],
                                sent |-> IF ok THEN Len(payload[w]) ELSE n, ok |-> ok])]
         /\ IF arm = "ok"
            THEN /\ metrics' = Bump(metrics, "questdb_ingested_records_total", Len(buffer[w]))
                 /\ flushed' = flushed \cup {buffer[w][i] : i \in 1 .. Len(buffer[w])}
                 /\ buffer' = [buffer EXCEPT ![w] = IF pc[w] = "flush" THEN <<>> ELSE @]
                 /\ pc' = [pc EXCEPT ![w] = IF pc[w] = "flush" THEN "recv" ELSE "shutdown"]
                 /\ UNCHANGED <<attempt, sleeps, conn,  wres, rxOpen, chan>>
            ELSE IF arm = "retry"
            THEN /\ attempt' = [attempt EXCEPT ![w] = @ + 1]
                 /\ sleeps' = [sleeps EXCEPT ![w] = Append(@, SleepFor(attempt[w] + 1))]
                 /\ metrics' = Bump(metrics, "questdb_ilp_retry_total", 1)
                 /\ UNCHANGED flushed
                 /\ IF reconnected
                    THEN /\ conn' = [conn EXCEPT ![w] = @ + 1]
                         /\ UNCHANGED <<pc, wres, rxOpen, chan, buffer>>
                    ELSE /\ WorkerReturn(w, "Sink")
                         /\ UNCHANGED conn
            ELSE /\ metrics' = Bump(metrics, "questdb_ilp_sink_errors_total", 1)
                 /\ WorkerReturn(w, "Sink")
                 /\ UNCHANGED <<attempt, sleeps, flushed, conn>>
    /\ UNCHANGED <<cfg, emitted, srcEnded, srcErr, result, payload, txOpen, cpc, held,
                   joinIdx, rejected>>

\* QuestDbIlpSink::run lines 303-306: best-effort shutdown, then Ok(()).
WorkerShutdown(w) ==
    /\ cfg.sink = "ilp" /\ pc[w] = "shutdown"
    /\ httpIdle
    /\ WorkerReturn(w, "Ok")
    /\ UNCHANGED <<cfg, emitted, srcEnded, srcErr, result, attempt, payload, sleeps,
                   txOpen, conn,  cpc, held, joinIdx, log, flushed, rejected,
                   metrics>>

\* ------------------------------------------------------------ ILP coordinator
\* Mutant: a send that does not notice the receiver is gone.
SendOutcomeIgnoreClosed(idx) ==
    IF Len(chan[idx]) < cfg.batch_size * 2 THEN "sent" ELSE "wait"

\* tokio mpsc Sender::send as the coordinator meets it: an error once the
\* receiver is gone, completion when there is room, suspension otherwise.
SendOutcome(idx) ==
    IF ~rxOpen[idx] THEN "closed"
    ELSE IF Len(chan[idx]) < ChanCap THEN "sent"
    ELSE "wait"

\* QuestDbIlpParallelSink::run returning: txs and joins are dropped.
CoordReturn(res) ==
    /\ cpc' = "done"
    /\ result' = res
    /\ txOpen' = FALSE
    /\ held' = NoEnv

\* Mutant: an offer that gives up on a channel the worker has not emptied.
CoordDeliverLossy(id, idx) ==
    IF SendOutcome(idx) = "closed"
    THEN /\ CoordReturn("Sink")
         /\ UNCHANGED chan
    ELSE /\ chan' = IF chan[idx] = <<>> THEN [chan EXCEPT ![idx] = Append(@, id)] ELSE chan
         /\ cpc' = "recv"
         /\ held' = NoEnv
         /\ UNCHANGED <<result, txOpen>>

\* txs[idx].send(env).await reaching an outcome other than suspension.
CoordDeliver(id, idx) ==
    IF SendOutcome(idx) = "closed"
    THEN /\ CoordReturn("Sink")
         /\ UNCHANGED chan
    ELSE /\ chan' = [chan EXCEPT ![idx] = Append(@, id)]
         /\ cpc' = "recv"
         /\ held' = NoEnv
         /\ UNCHANGED <<result, txOpen>>

\* QuestDbIlpParallelSink::run lines 384-399: one turn of the while loop up to
\* the send's first poll, or drop(txs) once the stream has ended.
CoordRun ==
    /\ cfg.sink = "ilp" /\ cpc = "recv"
    /\ httpIdle
    /\ \E raw \in RawItems :
         LET out == ThroughTransforms(cfg.transforms, raw)
             id == Len(emitted) + 1
             idx == shard_index(shard_key(raw), Workers)
         IN /\ StreamStep(raw, out)
            /\ IF out.kind = "none"
               THEN /\ txOpen' = FALSE
                    /\ cpc' = "join"
                    /\ UNCHANGED <<chan, held, result>>
               ELSE IF out.kind = "err"
               THEN UNCHANGED <<txOpen, cpc, chan, held, result>>
               ELSE IF SendOutcome(idx) = "wait"
               THEN /\ held' = id
                    /\ cpc' = "send"
                    /\ UNCHANGED <<txOpen, chan, result>>
               ELSE CoordDeliver(id, idx)
    /\ UNCHANGED <<cfg, pc, buffer, attempt, payload, sleeps, wres, rxOpen, conn,
                    joinIdx, log, flushed>>

\* The suspended txs[idx].send(env).await being woken: room, or a closed channel.
CoordSend ==
    /\ cfg.sink = "ilp" /\ cpc = "send"
    /\ httpIdle
    /\ LET idx == shard_index(shard_key(emitted[held]), Workers) IN
         /\ SendOutcome(idx) # "wait"
         /\ CoordDeliver(held, idx)
    /\ UNCHANGED <<cfg, emitted, srcEnded, srcErr, pc, buffer, attempt, payload, sleeps,
                   wres, rxOpen, conn,  joinIdx, log, flushed, rejected, metrics>>

\* QuestDbIlpParallelSink::run lines 401-409: one join handle awaited.
CoordJoin ==
    /\ cfg.sink = "ilp" /\ cpc = "join"
    /\ httpIdle
    /\ pc[joinIdx] = "done"
    /\ IF wres[joinIdx] # "Ok"
       THEN /\ CoordReturn(wres[joinIdx])
            /\ UNCHANGED joinIdx
       ELSE IF joinIdx + 1 = Workers
       THEN /\ CoordReturn("Ok")
            /\ UNCHANGED joinIdx
       ELSE /\ joinIdx' = joinIdx + 1
            /\ UNCHANGED <<cpc, result, txOpen, held>>
    /\ UNCHANGED <<cfg, emitted, srcEnded, srcErr, pc, buffer, attempt, payload, sleeps,
                   wres, chan, rxOpen, conn,  log, flushed, rejected, metrics>>

\* ------------------------------------------------------------ HTTP intake
\* The two HTTP sources (http_json.rs, http_generation_output.rs) are the same
\* code over the two record kinds, each with a queue of its own: the model is
\* of one of them, whichever.
HttpConfigs ==
    [channel_capacity : 1 .. MaxCapacity,
     auth_bearer_token : {"none", "secret"},
     max_request_records : 1 .. MaxRecords,
     max_line_bytes : {MaxLineBytes},
     ndjson_strict : BOOLEAN]

Handlers == 1 .. MaxHandlers

\* The Authorization header of a request.
Headers == {"absent", "Bearer secret", "Bearer wrong"}

\* authorize: Ok(()) (TRUE) or Err(StatusCode::UNAUTHORIZED) (FALSE).
authorize(header, token) ==
    IF token = "none" THEN TRUE
    ELSE IF header = "absent" THEN FALSE
    ELSE header = "Bearer " \o token

\* An element of a JSON array that the Json extractor has deserialized: its ts
\* string parses as RFC3339 ("good") or does not ("badts").
ArrayBodies == UNION {[1 .. n -> {"good", "badts"}] : n \in 0 .. MaxBody}

\* extract is what the Json<Vec<Incoming..>> extractor of the array endpoint
\* makes of the body before the handler is entered: "ok", or a rejection for
\* JSON that is malformed ("syntax") or of the wrong shape ("data").
Requests ==
    {[endpoint |-> "array", header |-> a, extract |-> "ok", body |-> b] :
        a \in Headers, b \in ArrayBodies}
    \cup {[endpoint |-> "array", header |-> a, extract |-> e, body |-> <<>>] :
        a \in Headers, e \in {"syntax", "data"}}
    \cup {[endpoint |-> "ndjson", header |-> a, extract |-> "ok", body |-> <<>>] :
        a \in Headers}

NoRequest == [endpoint |-> "none", header |-> "absent", extract |-> "ok", body |-> <<>>]

\* A line of an NDJSON body: len is its length in bytes after trim(), pad
\* the bytes of surrounding whitespace that trim() removes, text what
\* serde_json::from_str and parse_ts make of it.  A line longer than
\* max_line_bytes is never parsed: one text stands for all of them.
BlankLine == [text |-> "blank", len |-> 0, pad |-> 0]

\* Lines without surrounding whitespace.
Lines ==
    {BlankLine} \cup [text : {"good", "badjson", "badts"}, len : 1 .. MaxLineBytes, pad : {0}]
                \cup {[text |-> "good", len |-> MaxLineBytes + 1, pad |-> 0]}

\* Lines at and just over max_line_bytes, with and without a byte of
\* surrounding whitespace.
PaddedLines ==
    {BlankLine} \cup [text : {"good", "badjson"}, len : {MaxLineBytes, MaxLineBytes + 1},
                      pad : {0, 1}]

\* lines.next_line(): the body has ended, or reading it failed.
EndOfBody == [text |-> "eof", len |-> 0, pad |-> 0]
ReadError == [text |-> "ioerr", len |-> 0, pad |-> 0]

\* What next_line() can return to handler h: the body is streamed, the next
\* line is known when it is read.
next_line(h) ==
    {EndOfBody, ReadError} \cup (IF Len(seen[h]) < MaxBody THEN Lines ELSE {})

next_padded_line(h) ==
    {EndOfBody, ReadError} \cup (IF Len(seen[h]) < MaxBody THEN PaddedLines ELSE {})

\* The handler returns with the given status.
Answer(h, code) ==
    /\ hpc' = [hpc EXCEPT ![h] = "done"]
    /\ status' = [status EXCEPT ![h] = code]

\* Mutant: the record is offered with send().await, which completes only
\* when the queue has room.
send_await(h, n) ==
    IF ~rxAlive
    THEN /\ Answer(h, 500)
         /\ UNCHANGED queue
    ELSE /\ Len(queue) < hcfg.channel_capacity
         /\ queue' = Append(queue, [req |-> h, rec |-> n])
         /\ UNCHANGED <<hpc, status>>

\* Mutant: a queue that takes one envelope more than channel_capacity.
try_send_over(h, n) ==
    IF ~rxAlive
    THEN /\ Answer(h, 500)
         /\ UNCHANGED queue
    ELSE IF Len(queue) > hcfg.channel_capacity
    THEN /\ Answer(h, 429)
         /\ UNCHANGED queue
    ELSE /\ queue' = Append(queue, [req |-> h, rec |-> n])
         /\ UNCHANGED <<hpc, status>>

\* Mutant: a full queue makes the handler take back what it had enqueued.
try_send_rollback(h, n) ==
    IF ~rxAlive
    THEN /\ Answer(h, 500)
         /\ UNCHANGED queue
    ELSE IF Len(queue) >= hcfg.channel_capacity
    THEN /\ Answer(h, 429)
         /\ queue' = SelectSeq(queue, LAMBDA e : e.req # h)
    ELSE /\ queue' = Append(queue, [req |-> h, rec |-> n])
         /\ UNCHANGED <<hpc, status>>

\* Mutant: a send to a queue whose receiver is gone is taken as a success.
try_send_closed_ok(h, n) ==
    IF rxAlive /\ Len(queue) >= hcfg.channel_capacity
    THEN /\ Answer(h, 429)
         /\ UNCHANGED queue
    ELSE /\ queue' = Append(queue, [req |-> h, rec |-> n])
         /\ UNCHANGED <<hpc, status>>

\* Mutant: a full queue gives up its oldest envelope when it answers 429.
try_send_evict(h, n) ==
    IF ~rxAlive
    THEN /\ Answer(h, 500)
         /\ UNCHANGED queue
    ELSE IF Len(queue) >= hcfg.channel_capacity
    THEN /\ Answer(h, 429)
         /\ queue' = Tail(queue)
    ELSE /\ queue' = Append(queue, [req |-> h, rec |-> n])
         /\ UNCHANGED <<hpc, status>>

\* sender.tx.try_send(env) and the match on its result: Closed once the
\* receiver is gone, Full when the queue holds channel_capacity envelopes.
try_send(h, n) ==
    IF ~rxAlive
    THEN /\ Answer(h, 500)
         /\ UNCHANGED queue
    ELSE IF Len(queue) >= hcfg.channel_capacity
    THEN /\ Answer(h, 429)
         /\ UNCHANGED queue
    ELSE /\ queue' = Append(queue, [req |-> h, rec |-> n])
         /\ UNCHANGED <<hpc, status>>

\* A request reaches a free handler: the extractors run, then the handler up
\* to its loop (authorize, and the array length check).
\* Mutant: the array length check refuses an array of exactly
\* max_request_records elements.
HandlerEnterStrictLimit(h, r) ==
    /\ hpc[h] = "idle"
    /\ req' = [req EXCEPT ![h] = r]
    /\ IF r.extract # "ok"
       THEN Answer(h, IF r.extract = "syntax" THEN 400 ELSE 422)
       ELSE IF ~authorize(r.header, hcfg.auth_bearer_token)
       THEN Answer(h, 401)
       ELSE IF r.endpoint = "array" /\ Len(r.body) >= hcfg.max_request_records
       THEN Answer(h, 413)
       ELSE /\ hpc' = [hpc EXCEPT ![h] = "loop"]
            /\ UNCHANGED status
    /\ UNCHANGED <<hcfg, queue, rxAlive, delivered, seen, accepted, parse_errors>>
    /\ pipelineIdle

HandlerEnterWith(h, r) ==
    /\ hpc[h] = "idle"
    /\ req' = [req EXCEPT ![h] = r]
    /\ IF r.extract # "ok"
       THEN Answer(h, IF r.extract = "syntax" THEN 400 ELSE 422)
       ELSE IF ~authorize(r.header, hcfg.auth_bearer_token)
       THEN Answer(h, 401)
       ELSE IF r.endpoint = "array" /\ Len(r.body) > hcfg.max_request_records
       THEN Answer(h, 413)
       ELSE /\ hpc' = [hpc EXCEPT ![h] = "loop"]
            /\ UNCHANGED status
    /\ UNCHANGED <<hcfg, queue, rxAlive, delivered, seen, accepted, parse_errors>>
    /\ pipelineIdle

\* Any request of the bounded set reaches handler h.
HandlerEnter(h) == \E r \in Requests : HandlerEnterWith(h, r)

\* ingest_meter_usage / ingest_generation_output: one turn of the for loop,
\* or Ok(()) after the last element.
ingest_array(h) ==
    /\ hpc[h] = "loop" /\ req[h].endpoint = "array"
    /\ LET n == Len(seen[h]) + 1 IN
         IF n > Len(req[h].body)
         THEN /\ Answer(h, 200)
              /\ UNCHANGED <<queue, seen>>
         ELSE /\ seen' = [seen EXCEPT ![h] = Append(@, [text |-> req[h].body[n], len |-> 1, pad |-> 0])]
              /\ IF req[h].body[n] = "badts"
                 THEN /\ Answer(h, 400)
                      /\ UNCHANGED queue
                 ELSE try_send(h, n)
    /\ UNCHANGED <<hcfg, rxAlive, delivered, req, accepted, parse_errors>>
    /\ pipelineIdle

\* Mutant: a line whose ts fails to parse is skipped without being counted.
ndjson_turn_json_only(h, line) ==
    /\ hpc[h] = "loop" /\ req[h].endpoint = "ndjson"
    /\ LET n == Len(seen[h]) + 1 IN
         IF line = EndOfBody
         THEN /\ Answer(h, 200)
              /\ UNCHANGED <<queue, seen, accepted, parse_errors>>
         ELSE IF line = ReadError
         THEN /\ Answer(h, 400)
              /\ UNCHANGED <<queue, seen, accepted, parse_errors>>
         ELSE /\ seen' = [seen EXCEPT ![h] = Append(@, line)]
              /\ IF line.len = 0
                 THEN UNCHANGED <<queue, hpc, status, accepted, parse_errors>>
                 ELSE IF line.len > hcfg.max_line_bytes
                 THEN /\ Answer(h, 413)
                      /\ UNCHANGED <<queue, accepted, parse_errors>>
                 ELSE IF accepted[h] + parse_errors[h] + 1 > hcfg.max_request_records
                 THEN /\ Answer(h, 413)
                      /\ UNCHANGED <<queue, accepted, parse_errors>>
                 ELSE IF line.text \in {"badjson", "badts"}
                 THEN /\ parse_errors' = [parse_errors EXCEPT ![h] =
                             IF line.text = "badjson" THEN @ + 1 ELSE @]
                      /\ IF hcfg.ndjson_strict
                         THEN Answer(h, 400)
                         ELSE UNCHANGED <<hpc, status>>
                      /\ UNCHANGED <<queue, accepted>>
                 ELSE /\ try_send(h, n)
                      /\ accepted' = [accepted EXCEPT ![h] =
                             IF Len(queue') > Len(queue) THEN @ + 1 ELSE @]
                      /\ UNCHANGED parse_errors
    /\ UNCHANGED <<hcfg, rxAlive, delivered, req>>
    /\ pipelineIdle

\* Mutant: strict mode ends the request on a JSON failure only, not on a ts
\* failure.
ndjson_turn_strict_json(h, line) ==
    /\ hpc[h] = "loop" /\ req[h].endpoint = "ndjson"
    /\ LET n == Len(seen[h]) + 1 IN
         IF line = EndOfBody
         THEN /\ Answer(h, 200)
              /\ UNCHANGED <<queue, seen, accepted, parse_errors>>
         ELSE IF line = ReadError
         THEN /\ Answer(h, 400)
              /\ UNCHANGED <<queue, seen, accepted, parse_errors>>
         ELSE /\ seen' = [seen EXCEPT ![h] = Append(@, line)]
              /\ IF line.len = 0
                 THEN UNCHANGED <<queue, hpc, status, accepted, parse_errors>>
                 ELSE IF line.len > hcfg.max_line_bytes
                 THEN /\ Answer(h, 413)
                      /\ UNCHANGED <<queue, accepted, parse_errors>>
                 ELSE IF accepted[h] + parse_errors[h] + 1 > hcfg.max_request_records
                 THEN /\ Answer(h, 413)
                      /\ UNCHANGED <<queue, accepted, parse_errors>>
                 ELSE IF line.text \in {"badjson", "badts"}
                 THEN /\ parse_errors' = [parse_errors EXCEPT ![h] = @ + 1]
                      /\ IF hcfg.ndjson_strict /\ line.text = "badjson"
                         THEN Answer(h, 400)
                         ELSE UNCHANGED <<hpc, status>>
                      /\ UNCHANGED <<queue, accepted>>
                 ELSE /\ try_send(h, n)
                      /\ accepted' = [accepted EXCEPT ![h] =
                             IF Len(queue') > Len(queue) THEN @ + 1 ELSE @]
                      /\ UNCHANGED parse_errors
    /\ UNCHANGED <<hcfg, rxAlive, delivered, req>>
    /\ pipelineIdle

\* ingest_meter_usage_ndjson / ingest_generation_output_ndjson: one turn of
\* the while loop, or the return after next_line() gave None or an error.
ndjson_turn(h, line) ==
    /\ hpc[h] = "loop" /\ req[h].endpoint = "ndjson"
    /\ LET n == Len(seen[h]) + 1 IN
         IF line = EndOfBody
         THEN /\ Answer(h, 200)
              /\ UNCHANGED <<queue, seen, accepted, parse_errors>>
         ELSE IF line = ReadError
         THEN /\ Answer(h, 400)
              /\ UNCHANGED <<queue, seen, accepted, parse_errors>>
         ELSE /\ seen' = [seen EXCEPT ![h] = Append(@, line)]
              /\ IF line.len = 0
                 THEN UNCHANGED <<queue, hpc, status, accepted, parse_errors>>
                 ELSE IF line.len > hcfg.max_line_bytes
                 THEN /\ Answer(h, 413)
                      /\ UNCHANGED <<queue, accepted, parse_errors>>
                 ELSE IF accepted[h] + parse_errors[h] + 1 > hcfg.max_request_records
                 THEN /\ Answer(h, 413)
                      /\ UNCHANGED <<queue, accepted, parse_errors>>
                 ELSE IF line.text \in {"badjson", "badts"}
                 THEN /\ parse_errors' = [parse_errors EXCEPT ![h] = @ + 1]
                      /\ IF hcfg.ndjson_strict
                         THEN Answer(h, 400)
                         ELSE UNCHANGED <<hpc, status>>
                      /\ UNCHANGED <<queue, accepted>>
                 ELSE /\ try_send(h, n)
                      /\ accepted' = [accepted EXCEPT ![h] =
                             IF Len(queue') > Len(queue) THEN @ + 1 ELSE @]
                      /\ UNCHANGED parse_errors
    /\ UNCHANGED <<hcfg, rxAlive, delivered, req>>
    /\ pipelineIdle

ingest_ndjson(h) == \E line \in next_line(h) : ndjson_turn(h, line)

\* The same handler fed with lines that carry surrounding whitespace.
ingest_ndjson_padded(h) == \E line \in next_padded_line(h) : ndjson_turn(h, line)

\* HttpJsonSource::stream: the ReceiverStream yields the oldest envelope.
StreamNext ==
    /\ rxAlive /\ queue # <<>>
    /\ delivered' = Append(delivered, Head(queue))
    /\ queue' = Tail(queue)
    /\ UNCHANGED <<hcfg, rxAlive, hpc, req, seen, status, accepted, parse_errors>>
    /\ pipelineIdle

\* The pipeline has ended: the stream, and the receiver in it, is dropped
\* with whatever the queue holds.
ReceiverDropped ==
    /\ rxAlive
    /\ rxAlive' = FALSE
    /\ queue' = <<>>
    /\ UNCHANGED <<hcfg, delivered, hpc, req, seen, status, accepted, parse_errors>>
    /\ pipelineIdle

\* ------------------------------------------------------------ initial state
\* Pipeline::run has called sink.run: the SQL sink is at its loop; the
\* parallel ILP sink has created the channels and spawned the workers.
PipelineInit(c) ==
    /\ cfg = c
    /\ emitted = <<>>
    /\ srcEnded = FALSE
    /\ srcErr = FALSE
    /\ result = "running"
    /\ pc = [t \in Tasks |->
               IF cfg.sink = "pgwire" THEN (IF t = 0 THEN "recv" ELSE "off")
               ELSE IF cfg.sink = "ilp" /\ t < Workers THEN "connect" ELSE "off"]
    /\ buffer = [t \in Tasks |-> <<>>]
    /\ attempt = [t \in Tasks |-> 0]
    /\ payload = [t \in Tasks |-> <<>>]
    /\ sleeps = [t \in Tasks |-> <<>>]
    /\ wres = [t \in Tasks |-> "running"]
    /\ chan = [t \in Tasks |-> <<>>]
    /\ rxOpen = [t \in Tasks |-> cfg.sink = "ilp" /\ t < Workers]
    /\ txOpen = (cfg.sink = "ilp")
    /\ conn = [t \in Tasks |-> 0]
    /\ cpc = IF cfg.sink = "ilp" THEN "recv" ELSE "off"
    /\ held = NoEnv
    /\ joinIdx = 0
    /\ log = [t \in Tasks |-> <<>>]
    /\ flushed = {}
    /\ rejected = {}
    /\ metrics = [n \in CounterNames |-> 0]

\* HttpJsonSource::new has returned: the queue exists, the server is up.
HttpSourceInit(c) ==
    /\ hcfg = c
    /\ queue = <<>>
    /\ rxAlive = TRUE
    /\ delivered = <<>>
    /\ hpc = [h \in Handlers |-> "idle"]
    /\ req = [h \in Handlers |-> NoRequest]
    /\ seen = [h \in Handlers |-> <<>>]
    /\ status = [h \in Handlers |-> 0]
    /\ accepted = [h \in Handlers |-> 0]
    /\ parse_errors = [h \in Handlers |-> 0]

\* The configuration of a part that is not running.
NoPipeline ==
    [sink |-> "off", record |-> "meter_usage", source |-> "http", transforms |-> 0,
     batch_size |-> 1, max_retries |-> 0, workers |-> 1, hash |-> [k \in Keys |-> 0]]

NoHttpSource ==
    [channel_capacity |-> 1, auth_bearer_token |-> "none",
     max_request_records |-> 1, max_line_bytes |-> MaxLineBytes, ndjson_strict |-> FALSE]

\* No envelope is under validation outside the pipeline.
NoPayload == [record |-> "meter_usage", metric |-> Finite(0), ts |-> MinTs]

NoValidation == venv = NoPayload /\ vresult = "none"

Init ==
    /\ \E c \in Configs : PipelineInit(c)
    /\ HttpSourceInit(NoHttpSource)
    /\ NoValidation

HttpInit ==
    /\ PipelineInit(NoPipeline)
    /\ \E c \in HttpConfigs : HttpSourceInit(c)
    /\ NoValidation

Next ==
    \/ SqlRun
    \/ SqlFlush
    \/ CoordRun
    \/ CoordSend
    \/ CoordJoin
    \/ \E w \in Tasks : WorkerConnect(w)
    \/ \E w \in Tasks : WorkerRecv(w)
    \/ \E w \in Tasks : WorkerFlush(w)
    \/ \E w \in Tasks : WorkerShutdown(w)

Spec == Init /\ [][Next]_vars

HttpNext ==
    \/ \E h \in Handlers : HandlerEnter(h)
    \/ \E h \in Handlers : ingest_array(h)
    \/ \E h \in Handlers : ingest_ndjson(h)
    \/ StreamNext
    \/ ReceiverDropped

HttpSpec == HttpInit /\ [][HttpNext]_vars

\* ------------------------------------------------------------ two posts
\* The scenario of two array posts into a source nobody reads from: the
\* queue of PostCapacity slots, each post an array of PostRecords well-formed
\* records, the receiver held by the source and never polled.
TwoPostsConfig ==
    [channel_capacity |-> PostCapacity, auth_bearer_token |-> "none",
     max_request_records |-> PostRecords, max_line_bytes |-> MaxLineBytes,
     ndjson_strict |-> FALSE]

ArrayPost ==
    [endpoint |-> "array", header |-> "absent", extract |-> "ok",
     body |-> [i \in 1 .. PostRecords |-> "good"]]

PostArrives(h) == HandlerEnterWith(h, ArrayPost)

TwoPostsInit ==
    /\ PipelineInit(NoPipeline)
    /\ HttpSourceInit(TwoPostsConfig)
    /\ NoValidation

TwoPostsNext ==
    \/ \E h \in Handlers : PostArrives(h)
    \/ \E h \in Handlers : ingest_array(h)

TwoPostsSpec == TwoPostsInit /\ [][TwoPostsNext]_vars

\* ------------------------------------------------------------ padded lines
\* NDJSON requests whose lines are at and around max_line_bytes, with and
\* without surrounding whitespace, into an open source with a consumer.
PaddedConfigs ==
    [channel_capacity : {MaxCapacity}, auth_bearer_token : {"none"},
     max_request_records : {MaxRecords}, max_line_bytes : {MaxLineBytes},
     ndjson_strict : BOOLEAN]

NdjsonPost == [endpoint |-> "ndjson", header |-> "absent", extract |-> "ok", body |-> <<>>]

NdjsonArrives(h) == HandlerEnterWith(h, NdjsonPost)

PaddedInit ==
    /\ PipelineInit(NoPipeline)
    /\ \E c \in PaddedConfigs : HttpSourceInit(c)
    /\ NoValidation

PaddedNext ==
    \/ \E h \in Handlers : NdjsonArrives(h)
    \/ \E h \in Handlers : ingest_ndjson_padded(h)
    \/ StreamNext

PaddedSpec == PaddedInit /\ [][PaddedNext]_vars

\* ------------------------------------------------------------ transform chain
\* Pipelines with a chain of 0 .. MaxTransforms validation transforms in front
\* of the SQL sink.
ChainConfigs ==
    { [record |-> r, sink |-> "pgwire", source |-> s, transforms |-> n,
       workers |-> 1, batch_size |-> b, max_retries |-> m,
       hash |-> [k \in Keys |-> 0]] :
         r \in {"meter_usage", "generation_output"}, s \in SourceKinds,
         n \in 0 .. MaxTransforms, b \in 1 .. MaxBatch, m \in 0 .. MaxRetries }

ChainInit ==
    /\ \E c \in ChainConfigs : PipelineInit(c)
    /\ HttpSourceInit(NoHttpSource)
    /\ NoValidation

ChainNext == SqlRun \/ SqlFlush

ChainSpec == ChainInit /\ [][ChainNext]_vars

\* ------------------------------------------------------------ ILP text
\* A string is a sequence of characters.  The characters are the three the
\* line protocol escapes, the backslash, the line feed and a letter that
\* stands for every other character.  A key, a number and a digest have no
\* character that matters to the protocol and are kept as one token each.
Specials == {",", " ", "="}
Alphabet == Specials \cup {"\\", "\n", "a"}

RECURSIVE StrsOfLen(_)
StrsOfLen(n) ==
    IF n = 0 THEN {<<>>}
    ELSE {Append(t, c) : t \in StrsOfLen(n - 1), c \in Alphabet}

Strs == UNION {StrsOfLen(n) : n \in 0 .. MaxStr}

\* Option<T>
None == <<>>
Some(v) == <<v>>
is_some(o) == o # None
unwrap(o) == o[1]

\* Mutant: '=' is copied without a backslash.
RECURSIVE ilp_escape_ident_no_equals(_)
ilp_escape_ident_no_equals(str) ==
    IF str = <<>> THEN <<>>
    ELSE (IF Head(str) \in {",", " "} THEN <<"\\", Head(str)>> ELSE <<Head(str)>>)
             \o ilp_escape_ident_no_equals(Tail(str))

\* ilp_escape_ident, as the characters it appends to out.
RECURSIVE ilp_escape_ident(_)
ilp_escape_ident(str) ==
    IF str = <<>> THEN <<>>
    ELSE (IF Head(str) \in Specials THEN <<"\\", Head(str)>> ELSE <<Head(str)>>)
             \o ilp_escape_ident(Tail(str))

push_tag(key, value) == <<",">> \o ilp_escape_ident(key) \o <<"=">> \o ilp_escape_ident(value)

\* push_field_f64; value.to_string() is one token.
push_field_f64(first, key, value) ==
    (IF first THEN <<>> ELSE <<",">>) \o ilp_escape_ident(key) \o <<"=", ToString(value)>>

ts_to_unix_nanos(ts) == ToString(ts)

\* The names of the optional tags and fields of each record kind, in the
\* order write_ilp_line takes them.
IdentityKey(kind) == IF kind = "meter_usage" THEN "meter_id" ELSE "plant_id"

OptTagKeys(kind) ==
    IF kind = "meter_usage" THEN <<"premise_id", "quality_flag", "source_system">>
    ELSE <<"unit_id", "status", "fuel_type">>

MetricKey(kind) == IF kind = "meter_usage" THEN "kwh" ELSE "mw"

OptFieldKeys(kind) == IF kind = "meter_usage" THEN <<"kvarh", "kva_demand">> ELSE <<"mvar">>

\* Mutant: the digest also covers the envelope's received_at.
event_id_meter_usage_stamped(m) ==
    "blake3" \o ToString(<<m.ts, m.id, m.tags[1], m.metric, m.fields[1], m.fields[2],
                           m.tags[2], m.tags[3], venv.received_at>>)

\* event_id_meter_usage: the hex digest of BLAKE3 over ts, meter_id,
\* premise_id, kwh, kvarh, kva_demand, quality_flag, source_system, kept as a
\* token that names the hashed values (a collision-free digest).
event_id_meter_usage(m) ==
    "blake3" \o ToString(<<m.ts, m.id, m.tags[1], m.metric, m.fields[1], m.fields[2],
                           m.tags[2], m.tags[3]>>)

\* event_id_generation: over ts, plant_id, unit_id, mw, mvar, status, fuel_type.
event_id_generation(g) ==
    "blake3" \o ToString(<<g.ts, g.id, g.tags[1], g.metric, g.fields[1], g.tags[2], g.tags[3]>>)

\* Mutant: an absent optional tag is written with an empty value.
RECURSIVE push_opt_tags_empty(_, _)
push_opt_tags_empty(p, i) ==
    IF i > Len(p.tags) THEN <<>>
    ELSE push_tag(<<OptTagKeys(p.record)[i]>>,
                  IF is_some(p.tags[i]) THEN unwrap(p.tags[i]) ELSE <<>>)
             \o push_opt_tags_empty(p, i + 1)

\* The optional tags from the i-th on, each pushed when it is Some.
RECURSIVE push_opt_tags(_, _)
push_opt_tags(p, i) ==
    IF i > Len(p.tags) THEN <<>>
    ELSE (IF is_some(p.tags[i])
          THEN push_tag(<<OptTagKeys(p.record)[i]>>, unwrap(p.tags[i])) ELSE <<>>)
             \o push_opt_tags(p, i + 1)

\* The optional fields from the i-th on, each pushed when it is Some.
RECURSIVE push_opt_fields(_, _)
push_opt_fields(p, i) ==
    IF i > Len(p.fields) THEN <<>>
    ELSE (IF is_some(p.fields[i])
          THEN push_field_f64(FALSE, <<OptFieldKeys(p.record)[i]>>, unwrap(p.fields[i]))
          ELSE <<>>)
             \o push_opt_fields(p, i + 1)

\* IlpEncode::write_ilp_line for MeterUsage and for GenerationOutput, as the
\* characters appended to out.
write_ilp_line_text(p) ==
    <<p.record>>
        \o push_tag(<<"event_id">>,
                    <<IF p.record = "meter_usage" THEN event_id_meter_usage(p)
                      ELSE event_id_generation(p)>>)
        \o push_tag(<<IdentityKey(p.record)>>, p.id)
        \o push_opt_tags(p, 1)
        \o <<" ">>
        \o push_field_f64(TRUE, <<MetricKey(p.record)>>, p.metric)
        \o push_opt_fields(p, 1)
        \o <<" ">>
        \o <<ts_to_unix_nanos(p.ts)>>

\* QuestDbIlpSink::encode_batch, as the characters of the bytes it returns.
RECURSIVE encode_batch_text(_)
encode_batch_text(batch) ==
    IF batch = <<>> THEN <<>>
    ELSE write_ilp_line_text(Head(batch)) \o <<"\n">> \o encode_batch_text(Tail(batch))

\* The records handed to the encoder: the identity tag ranges over every
\* string, the first optional tag over a few, the others are a letter or
\* absent.
OptTagValues == {None} \cup {Some(t) : t \in {<<"a">>, <<",", "a">>, <<"a", "\\">>}}
OptLetter == {None, Some(<<"a">>)}
OptNumber == {None, Some(1)}

EncodePayloads ==
    [record : {"meter_usage"}, ts : {1}, id : Strs,
     tags : {<<a, b, c>> : a \in OptTagValues, b \in OptLetter, c \in OptLetter},
     metric : {0, 1},
     fields : {<<x, y>> : x \in OptNumber, y \in OptNumber}]
    \cup
    [record : {"generation_output"}, ts : {1}, id : Strs,
     tags : {<<a, b, c>> : a \in OptTagValues, b \in OptLetter, c \in OptLetter},
     metric : {0, 1},
     fields : {<<x>> : x \in OptNumber}]

\* The envelope at hand carries the payload and received_at; vresult is the
\* list of the lines encoded from it so far, each with the received_at of the
\* envelope it was encoded from.
EncodeInit ==
    /\ PipelineInit(NoPipeline)
    /\ HttpSourceInit(NoHttpSource)
    /\ \E p \in EncodePayloads : venv = [payload |-> p, received_at |-> 0]
    /\ vresult = <<>>

\* write_ilp_line called on the envelope's payload.
Encode ==
    /\ Len(vresult) < MaxEncodes
    /\ vresult' = Append(vresult, [at |-> venv.received_at,
                                   line |-> write_ilp_line_text(venv.payload)])
    /\ UNCHANGED <<venv, pvars, hvars>>

\* The same record arrives again, or waits for a later flush: the payload in
\* an envelope with another received_at.
Restamp ==
    /\ venv.received_at = 0
    /\ venv' = [venv EXCEPT !.received_at = 1]
    /\ UNCHANGED <<vresult, pvars, hvars>>

EncodeNext == Encode \/ Restamp

EncodeSpec == EncodeInit /\ [][EncodeNext]_vars

\* ------------------------------------------------------------ feeder balance
\* bin/feeder_balance.rs: the INSERT ... SELECT that recomputes
\* feeder_energy_balance, over small tables.  Energies are whole numbers (mw
\* is a multiple of 4, so that SUM(mw) * 0.25 is whole), a quotient is kept
\* as the pair of its terms, NULL is a value of its own.
Null == [null |-> TRUE, n |-> 0, d |-> 1]
Quot(a, b) == [null |-> FALSE, n |-> a, d |-> b]
Abs(x) == IF x < 0 THEN -x ELSE x

\* Comparisons of a quotient with a decimal of two places, given in
\* hundredths; a comparison with NULL is not true.
Sign(q) == IF q.d < 0 THEN -1 ELSE 1
LessThan(q, hundredths) == ~q.null /\ 100 * q.n * Sign(q) < hundredths * q.d * Sign(q)
AbsAtMost(q, hundredths) == ~q.null /\ 100 * Abs(q.n) <= hundredths * Abs(q.d)
AbsOver(q, hundredths) == ~q.null /\ 100 * Abs(q.n) > hundredths * Abs(q.d)

\* const LOSS_ALERT_THRESHOLD: f64 = 0.02, in hundredths.
LOSS_ALERT_THRESHOLD == 2

Instants == 1 .. LastTs
Meters == {"m1", "m2"}
TheftTypes == {"tamper", "reverse_run", "magnetic", "theft_suspect"}

\* SUM over joined rows: f gives the summed value of each row.
RECURSIVE SumOf(_)
SumOf(f) ==
    IF DOMAIN f = {} THEN 0
    ELSE LET r == CHOOSE x \in DOMAIN f : TRUE
         IN f[r] + SumOf([x \in DOMAIN f \ {r} |-> f[x]])

\* A mapping row covers ts: from_ts <= ts AND to_ts > ts.
Covers(m, ts) == m.from_ts <= ts /\ m.to_ts > ts

\* Subquery g: generation_output JOIN plant_feeder_map, GROUP BY ts, feeder_id.
SubqueryG(db) ==
    LET joined == {[go |-> go, pfm |-> pfm] :
                      go \in db.generation_output, pfm \in db.plant_feeder_map}
        on == {j \in joined : /\ j.pfm.plant_id = j.go.plant_id
                               /\ (j.pfm.unit_id = "NULL" \/ j.pfm.unit_id = j.go.unit_id)
                               /\ Covers(j.pfm, j.go.ts)}
        groups == {[ts |-> j.go.ts, feeder_id |-> j.pfm.feeder_id] : j \in on}
    IN {[ts |-> k.ts, feeder_id |-> k.feeder_id,
         feeder_kwh_gen |->
             SumOf([j \in {x \in on : x.go.ts = k.ts /\ x.pfm.feeder_id = k.feeder_id}
                       |-> j.go.mw]) \div 4] : k \in groups}

\* COALESCE(msm.kwh_multiplier, 1.0) of the LEFT JOIN meter_scale_map.
Multiplier(db, mu) ==
    LET on == {msm \in db.meter_scale_map : msm.meter_id = mu.meter_id /\ Covers(msm, mu.ts)}
    IN IF on = {} THEN 1 ELSE (CHOOSE msm \in on : TRUE).kwh_multiplier

\* Subquery d: meter_usage JOIN meter_feeder_map, GROUP BY ts, feeder_id.
SubqueryD(db) ==
    LET joined == {[mu |-> mu, mfm |-> mfm] :
                      mu \in db.meter_usage, mfm \in db.meter_feeder_map}
        on == {j \in joined : j.mfm.meter_id = j.mu.meter_id /\ Covers(j.mfm, j.mu.ts)}
        groups == {[ts |-> j.mu.ts, feeder_id |-> j.mfm.feeder_id] : j \in on}
    IN {[ts |-> k.ts, feeder_id |-> k.feeder_id,
         feeder_kwh_demand |->
             SumOf([j \in {x \in on : x.mu.ts = k.ts /\ x.mfm.feeder_id = k.feeder_id}
                       |-> j.mu.kwh * Multiplier(db, j.mu)])] : k \in groups}

\* Subquery c: meter_feeder_map LEFT JOIN meter_usage, GROUP BY feeder_id,
\* mu.ts.  A mapping row without a reading joins a NULL reading, ts 0 here,
\* whose group no row of g has.  Within the group of ts the joined rows are
\* those of the meters that have a reading at ts.
SubqueryC(db) ==
    LET On(mfm) == {mu \in db.meter_usage :
                       mu.meter_id = mfm.meter_id /\ mu.ts >= mfm.from_ts
                           /\ mu.ts < mfm.to_ts}
        matched == UNION {{[mfm |-> mfm, ts |-> mu.ts, mu_meter_id |-> mu.meter_id] :
                              mu \in On(mfm)} : mfm \in db.meter_feeder_map}
        unmatched == {[mfm |-> mfm, ts |-> 0, mu_meter_id |-> "NULL"] :
                         mfm \in {m \in db.meter_feeder_map : On(m) = {}}}
        joined == matched \cup unmatched
        groups == {[ts |-> j.ts, feeder_id |-> j.mfm.feeder_id] : j \in joined}
        InGroup(k) == {j \in joined : j.ts = k.ts /\ j.mfm.feeder_id = k.feeder_id}
    IN {[ts |-> k.ts, feeder_id |-> k.feeder_id,
         meter_coverage_pct |->
             \* COUNT(DISTINCT mu.meter_id) * 1.0 / NULLIF(COUNT(DISTINCT mfm.meter_id), 0)
             Quot(Cardinality({j.mu_meter_id : j \in InGroup(k)} \ {"NULL"}),
                  Cardinality({j.mfm.meter_id : j \in InGroup(k)}))] : k \in groups}

\* Subquery t: topology_events, GROUP BY feeder_id, ts.
SubqueryT(db) ==
    {[ts |-> e.ts, feeder_id |-> e.feeder_id,
      topology_events |->
          Cardinality({x \in db.topology_events : x.ts = e.ts /\ x.feeder_id = e.feeder_id})] :
        e \in db.topology_events}

\* Subquery th: meter_events JOIN meter_feeder_map WHERE event_type IN (...),
\* GROUP BY feeder_id, ts.
SubqueryTh(db) ==
    LET joined == {[me |-> me, mfm |-> mfm] :
                      me \in db.meter_events, mfm \in db.meter_feeder_map}
        on == {j \in joined : /\ j.mfm.meter_id = j.me.meter_id /\ Covers(j.mfm, j.me.ts)
                               /\ j.me.event_type \in TheftTypes}
    IN {[ts |-> j.me.ts, feeder_id |-> j.mfm.feeder_id,
         theft_events |->
             Cardinality({x \in on : x.me.ts = j.me.ts /\ x.mfm.feeder_id = j.mfm.feeder_id})] :
           j \in on}

\* The row of a subquery LEFT JOINed to the row of g, or nothing.
Joined(sub, g) == {r \in sub : r.ts = g.ts /\ r.feeder_id = g.feeder_id}

\* The cause_hint CASE with the theft arm ahead of the topology arm.
cause_hint_theft_first(gen, demand, cov, topology_events, theft_events) ==
    IF gen = 0 THEN "unknown"
    ELSE IF ~cov.null /\ LessThan(cov, 90) THEN "data"
    ELSE IF theft_events > 0 /\ (cov.null \/ ~LessThan(cov, 90)) THEN "theft"
    ELSE IF topology_events > 0 THEN "topology"
    ELSE IF gen > 0 /\ AbsAtMost(Quot(gen - demand, gen), 5) THEN "physics"
    ELSE "unknown"

\* The cause_hint CASE of the SELECT list.
cause_hint(gen, demand, cov, topology_events, theft_events) ==
    IF gen = 0 THEN "unknown"
    ELSE IF ~cov.null /\ LessThan(cov, 90) THEN "data"
    ELSE IF topology_events > 0 THEN "topology"
    ELSE IF theft_events > 0 /\ (cov.null \/ ~LessThan(cov, 90)) THEN "theft"
    ELSE IF gen > 0 /\ AbsAtMost(Quot(gen - demand, gen), 5) THEN "physics"
    ELSE "unknown"

\* The alert CASE raised at the threshold itself.
alert_at_threshold(gen, demand) ==
    IF gen = 0 THEN FALSE
    ELSE IF 100 * Abs(gen - demand) >= LOSS_ALERT_THRESHOLD * Abs(gen) THEN TRUE
    ELSE FALSE

\* The alert CASE of the SELECT list.
alert(gen, demand) ==
    IF gen = 0 THEN FALSE
    ELSE IF AbsOver(Quot(gen - demand, gen), LOSS_ALERT_THRESHOLD) THEN TRUE
    ELSE FALSE

\* The SELECT of insert_sql: one row per row of g.  An absent count is 0
\* here: NULL > 0 is not true.
insert_sql(db) ==
    {LET d == Joined(SubqueryD(db), g)
         c == Joined(SubqueryC(db), g)
         t == Joined(SubqueryT(db), g)
         th == Joined(SubqueryTh(db), g)
         demand == IF d = {} THEN 0 ELSE (CHOOSE r \in d : TRUE).feeder_kwh_demand
         cov == IF c = {} THEN Null ELSE (CHOOSE r \in c : TRUE).meter_coverage_pct
         topo == IF t = {} THEN 0 ELSE (CHOOSE r \in t : TRUE).topology_events
         theft == IF th = {} THEN 0 ELSE (CHOOSE r \in th : TRUE).theft_events
     IN [ts |-> g.ts,
         feeder_id |-> g.feeder_id,
         feeder_kwh_gen |-> g.feeder_kwh_gen,
         feeder_kwh_demand |-> demand,
         loss_kwh |-> g.feeder_kwh_gen - demand,
         loss_pct |-> IF g.feeder_kwh_gen = 0 THEN Null
                      ELSE Quot(g.feeder_kwh_gen - demand, g.feeder_kwh_gen),
         meter_coverage_pct |-> IF cov.null THEN Quot(1, 1) ELSE cov,
         data_quality_score |-> IF cov.null THEN Quot(1, 1) ELSE cov,
         cause_hint |-> cause_hint(g.feeder_kwh_gen, demand, cov, topo, theft),
         alert |-> alert(g.feeder_kwh_gen, demand)] : g \in SubqueryG(db)}

\* The tables the job reads.  One plant feeds feeder f1; each meter is not
\* mapped, mapped to f1 over all instants, or mapped to f1 from the last
\* instant on.  The job's instant of interest is 1.
MeterMappings(m) ==
    {{}, {[meter_id |-> m, feeder_id |-> "f1", from_ts |-> 1, to_ts |-> LastTs + 1]},
     {[meter_id |-> m, feeder_id |-> "f1", from_ts |-> LastTs, to_ts |-> LastTs + 1]}}

Readings(m, values) ==
    {{}} \cup {{[meter_id |-> m, ts |-> 1, kwh |-> v]} : v \in values}

LaterReadings(m) == {{}, {[meter_id |-> m, ts |-> LastTs, kwh |-> 50]}}

MeterEventRows == [ts : {1}, meter_id : Meters, event_type : {"tamper", "outage"}]

Databases ==
    [generation_output :
         {{}} \cup {{[ts |-> 1, plant_id |-> "p1", unit_id |-> "u1", mw |-> v]} : v \in {0, 400}},
     plant_feeder_map :
         {{[plant_id |-> "p1", unit_id |-> "NULL", feeder_id |-> "f1",
            from_ts |-> 1, to_ts |-> LastTs + 1]}},
     meter_usage :
         {a \cup b \cup c : a \in Readings("m1", {50, 97}), b \in Readings("m2", {40, 49}),
                             c \in LaterReadings("m2")},
     meter_feeder_map : {a \cup b : a \in MeterMappings("m1"), b \in MeterMappings("m2")},
     meter_scale_map :
         {{}, {[meter_id |-> "m2", from_ts |-> 1, to_ts |-> LastTs + 1, kwh_multiplier |-> 2]}},
     topology_events : {{}, {[ts |-> 1, feeder_id |-> "f1"]}, {[ts |-> LastTs, feeder_id |-> "f1"]}},
     meter_events : {{}} \cup {{e} : e \in MeterEventRows}]

\* feeder_energy_balance is empty after the TRUNCATE.
NotRun == [done |-> FALSE, rows |-> {}]

RecomputeInit ==
    /\ PipelineInit(NoPipeline)
    /\ HttpSourceInit(NoHttpSource)
    /\ venv \in Databases
    /\ vresult = NotRun

\* main: the INSERT INTO feeder_energy_balance SELECT ...
Recompute ==
    /\ ~vresult.done
    /\ vresult' = [done |-> TRUE, rows |-> insert_sql(venv)]
    /\ UNCHANGED <<venv, pvars, hvars>>

RecomputeNext == Recompute

RecomputeSpec == RecomputeInit /\ [][RecomputeNext]_vars

\* ------------------------------------------------------------ source objects
\* A source object and the calls of stream() made on it.  The HTTP sources
\* hold receiver: Arc<Mutex<Option<Receiver>>>; the file sources (backfill
\* NDJSON, CSV, DAT) hold path only.  A file is the sequence of its lines,
\* well-formed ("ok") or not ("bad").
SourceVariants == {"http_json", "http_generation_output", "backfill_file", "csv_file", "dat_file"}

HttpVariants == {"http_json", "http_generation_output"}

Files == UNION {[1 .. n -> {"ok", "bad"}] : n \in 0 .. MaxBody}

Sources ==
    [variant : HttpVariants, receiver : {"Some"}, file : {<<>>}]
    \cup [variant : SourceVariants \ HttpVariants, receiver : {"None"}, file : Files]

SourceInit ==
    /\ PipelineInit(NoPipeline)
    /\ HttpSourceInit(NoHttpSource)
    /\ venv \in Sources
    /\ vresult = [calls |-> <<>>, streams |-> <<>>]

\* Source::stream.  HTTP: guard.take().expect(..) hands out the receiver the
\* first time and panics once it is gone.  File: path.clone() and a
\* try_stream! that opens the file when first polled.
SourceStream ==
    /\ Len(vresult.calls) < MaxCalls
    /\ IF venv.variant \in HttpVariants
       THEN IF venv.receiver = "Some"
            THEN /\ venv' = [venv EXCEPT !.receiver = "None"]
                 /\ vresult' = [calls |-> Append(vresult.calls, "stream"),
                                streams |-> Append(vresult.streams, [yielded |-> 0, ended |-> FALSE])]
            ELSE /\ vresult' = [vresult EXCEPT !.calls = Append(@, "panic")]
                 /\ UNCHANGED venv
       ELSE /\ vresult' = [calls |-> Append(vresult.calls, "stream"),
                           streams |-> Append(vresult.streams, [yielded |-> 0, ended |-> FALSE])]
            /\ UNCHANGED venv
    /\ UNCHANGED <<pvars, hvars>>

\* One poll of the i-th stream handed out.  The ReceiverStream yields what
\* the handlers enqueue and does not end; a file stream yields the next line
\* as an envelope, and ends at the end of the file or at a malformed line.
StreamPoll(i) ==
    /\ i \in 1 .. Len(vresult.streams)
    /\ ~vresult.streams[i].ended
    /\ LET st == vresult.streams[i] IN
         IF venv.variant \in HttpVariants
         THEN /\ st.yielded < MaxItems
              /\ vresult' = [vresult EXCEPT !.streams[i].yielded = @ + 1]
         ELSE IF st.yielded < Len(venv.file) /\ venv.file[st.yielded + 1] = "ok"
         THEN vresult' = [vresult EXCEPT !.streams[i].yielded = @ + 1]
         ELSE vresult' = [vresult EXCEPT !.streams[i].ended = TRUE]
    /\ UNCHANGED <<venv, pvars, hvars>>

SourceNext == SourceStream \/ \E i \in 1 .. MaxCalls : StreamPoll(i)

SourceSpec == SourceInit /\ [][SourceNext]_vars

\* ------------------------------------------------------------ service main
\* main.rs: the two pipelines under tokio::try_join!.  Of each pipeline only
\* what main can see is kept: whether its HTTP server task still runs (its
\* stream ends once the server, and the sender in it, is gone), how many
\* envelopes its run has taken, and what its run returned ("dropped": the
\* future was dropped before it returned).
PipelineNames == {"meter_usage", "generation_output"}

Other(p) == CHOOSE q \in PipelineNames : q # p

MainInit ==
    /\ PipelineInit(NoPipeline)
    /\ HttpSourceInit(NoHttpSource)
    /\ venv = [p \in PipelineNames |-> [server |-> "up", taken |-> 0, run |-> "running"]]
    /\ vresult = "running"

\* Mutant: main waits for both runs before it looks at their results.
join_all(a, b) ==
    IF a = "running" \/ b = "running" THEN "pending"
    ELSE IF a = "Ok" /\ b = "Ok" THEN "Ok"
    ELSE "Err"

\* tokio::try_join!(a, b): Err as soon as one future returned Err, Ok once
\* both returned Ok, pending otherwise.
try_join(a, b) ==
    IF a = "Sink" \/ b = "Sink" THEN "Err"
    ELSE IF a = "Ok" /\ b = "Ok" THEN "Ok"
    ELSE "pending"

\* A pipeline's run takes one more envelope from its stream.
PipelineTakes(p) ==
    /\ vresult = "running" /\ venv[p].run = "running"
    /\ venv[p].server = "up" /\ venv[p].taken < MaxItems
    /\ venv' = [venv EXCEPT ![p].taken = @ + 1]
    /\ UNCHANGED <<vresult, pvars, hvars>>

\* axum::serve of a source returns (an error it logs): the task ends.
ServerEnds(p) ==
    /\ vresult = "running" /\ venv[p].server = "up"
    /\ venv' = [venv EXCEPT ![p].server = "down"]
    /\ UNCHANGED <<vresult, pvars, hvars>>

\* A pipeline's run returns inside the poll of try_join!: Err(Sink) after a
\* flush failed for good, Ok(()) after its stream ended.  main applies ? to
\* what try_join! gives: an Err ends main with a failure and drops the other
\* future, an Ok lets it return Ok(()).
RunReturns(p) ==
    /\ vresult = "running" /\ venv[p].run = "running"
    /\ \E res \in {"Ok", "Sink"} :
         /\ res = "Sink" => venv[p].taken >= 1
         /\ res = "Ok" => venv[p].server = "down"
         /\ LET q == Other(p)
                joined == try_join(IF p = "meter_usage" THEN res ELSE venv[q].run,
                                   IF p = "meter_usage" THEN venv[q].run ELSE res)
            IN /\ venv' = [venv EXCEPT ![p].run = res,
                                       ![q].run = IF joined = "Err" /\ @ = "running"
                                                  THEN "dropped" ELSE @]
               /\ vresult' = IF joined = "Err" THEN "failure"
                             ELSE IF joined = "Ok" THEN "success"
                             ELSE "running"
    /\ UNCHANGED <<pvars, hvars>>

MainNext ==
    \/ \E p \in PipelineNames : PipelineTakes(p)
    \/ \E p \in PipelineNames : ServerEnds(p)
    \/ \E p \in PipelineNames : RunReturns(p)

MainSpec == MainInit /\ [][MainNext]_vars

\* ------------------------------------------------------------ fair scheduling
\* The pipeline under the tokio scheduler: a task that can take its next step
\* takes it.  A sink polling a stream that has nothing to yield, a worker
\* polling an empty open channel and a send waiting for room are suspended,
\* their steps not enabled.  The stream of an HTTP source yields the
\* envelopes of the requests that arrive (at most MaxItems) and does not end.
LiveConfigs ==
    {c \in Configs : c.record = "meter_usage" /\ c.transforms = 1 /\ c.max_retries <= 1}

LiveInit ==
    /\ \E c \in LiveConfigs : PipelineInit(c)
    /\ HttpSourceInit(NoHttpSource)
    /\ NoValidation

Fairness ==
    /\ WF_vars(SqlRun) /\ WF_vars(SqlFlush)
    /\ WF_vars(CoordRun) /\ WF_vars(CoordSend) /\ WF_vars(CoordJoin)
    /\ \A w \in Tasks :
           /\ WF_vars(WorkerConnect(w)) /\ WF_vars(WorkerRecv(w))
           /\ WF_vars(WorkerFlush(w)) /\ WF_vars(WorkerShutdown(w))

LiveSpec == LiveInit /\ [][Next]_vars /\ Fairness

\* ------------------------------------------------------------ recompute job
\* bin/feeder_balance.rs, main as a sequence of statements on
\* feeder_energy_balance.  The table is a bag of rows (row -> number of
\* copies): INSERT adds rows to what the table holds.  before is what the
\* table held when the running job started, first what it held after the
\* first job that succeeded.
EmptyTable == [r \in {} |-> 0]

InsertInto(table, rows) ==
    [r \in DOMAIN table \cup rows |->
        (IF r \in DOMAIN table THEN table[r] ELSE 0) + (IF r \in rows THEN 1 ELSE 0)]

\* A row an earlier job wrote from input tables as they were then.
OldRow ==
    [ts |-> 0, feeder_id |-> "f1", feeder_kwh_gen |-> 100, feeder_kwh_demand |-> 100,
     loss_kwh |-> 0, loss_pct |-> Quot(0, 100), meter_coverage_pct |-> Quot(1, 1),
     data_quality_score |-> Quot(1, 1), cause_hint |-> "physics", alert |-> FALSE]

\* Input tables without events and scale factors.
JobDatabases ==
    {db \in Databases : /\ db.meter_events = {} /\ db.topology_events = {}
                        /\ db.meter_scale_map = {}}

JobInit ==
    /\ PipelineInit(NoPipeline)
    /\ HttpSourceInit(NoHttpSource)
    /\ venv \in JobDatabases
    /\ \E held_rows \in {{}, {OldRow}, insert_sql(venv)} :
         vresult = [step |-> "start", table |-> InsertInto(EmptyTable, held_rows),
                    before |-> InsertInto(EmptyTable, held_rows),
                    first |-> EmptyTable, runs |-> 0]

\* sqlx::query("TRUNCATE TABLE feeder_energy_balance;").execute(&pool).await?
\* The statement is committed on its own: no transaction spans it and the
\* INSERT.
JobTruncate ==
    /\ vresult.step = "start"
    /\ \E ok \in BOOLEAN :
         vresult' = IF ok THEN [vresult EXCEPT !.step = "truncated", !.table = EmptyTable]
                    ELSE [vresult EXCEPT !.step = "failed_truncate"]
    /\ UNCHANGED <<venv, pvars, hvars>>

\* sqlx::query(insert_sql).bind(..).execute(&pool).await?  A failed INSERT
\* has written nothing or some of its rows; main returns the error.
JobInsert ==
    /\ vresult.step = "truncated"
    /\ LET rows == insert_sql(venv) IN
       \E ok \in BOOLEAN, part \in SUBSET rows :
         /\ ok => part = rows
         /\ ~ok => part = {} \/ part # rows
         /\ vresult' =
              IF ok
              THEN [vresult EXCEPT !.step = "done",
                                   !.table = InsertInto(vresult.table, rows),
                                   !.first = IF vresult.runs = 0
                                             THEN InsertInto(vresult.table, rows) ELSE @,
                                   !.runs = @ + 1]
              ELSE [vresult EXCEPT !.step = "failed_insert",
                                   !.table = InsertInto(vresult.table, part)]
    /\ UNCHANGED <<venv, pvars, hvars>>

\* The job is started again on the same input tables.
JobAgain ==
    /\ vresult.step = "done" /\ vresult.runs < MaxRuns
    /\ vresult' = [vresult EXCEPT !.step = "start", !.before = vresult.table]
    /\ UNCHANGED <<venv, pvars, hvars>>

JobNext == JobTruncate \/ JobInsert \/ JobAgain

JobSpec == JobInit /\ [][JobNext]_vars

\* ------------------------------------------------------------ validation
\* The two validation functions applied to payloads whose metric ranges over
\* the finite and the non-finite f64 values and whose ts ranges over the
\* sanity window and the instants just outside it.
Payloads ==
    [record : {"meter_usage", "generation_output"}, metric : F64,
     ts : (MinTs - 1) .. (MaxTs + 1)]

Validate ==
    /\ vresult = "none"
    /\ vresult' = IF venv.record = "meter_usage"
                  THEN validate_meter_usage(venv)
                  ELSE validate_generation_output(venv)
    /\ UNCHANGED <<venv, pvars, hvars>>

ValidateInit ==
    /\ PipelineInit(NoPipeline)
    /\ HttpSourceInit(NoHttpSource)
    /\ venv \in Payloads
    /\ vresult = "none"

ValidateNext == Validate

ValidateSpec == ValidateInit /\ [][ValidateNext]_vars

\* ------------------------------------------------------------ vocabulary
Last(seq) == seq[Len(seq)]
Range(seq) == {seq[i] : i \in 1 .. Len(seq)}

\* Some flush_batch (or a worker's connect) has returned a fatal error.
AnyFatal == result = "Sink" \/ \E w \in Tasks : wres[w] = "Sink"

InFlush(t) == pc[t] \in {"flush", "final_flush"}

\* The batch the task's running flush_batch was called with.
CurBatch(t) == IF cfg.sink = "ilp" THEN payload[t] ELSE buffer[t]

\* The write attempts task t made for batch b.
WritesOf(t, b) == {i \in 1 .. Len(log[t]) : log[t][i].batch = b}

\* ------------------------------------------------------------ C1
\* C1: Pipeline::run returns Ok only when the source stream ended without a
\* source error and no flush failed fatally; after a source error item run
\* returns PipelineError::Source; after a fatal flush it returns
\* PipelineError::Sink.
C1_RunResult ==
    /\ result = "Ok" => srcEnded /\ ~srcErr /\ ~AnyFatal
    /\ result # "running" /\ srcErr /\ ~AnyFatal => result = "Source"
    /\ result # "running" /\ AnyFatal => result = "Sink"

\* ------------------------------------------------------------ C2
\* The attempts a batch has had never exceed max_retries + 1, and inside a
\* flush the sleeps made so far are retry_backoff * 1, .., retry_backoff * attempt.
C2_AttemptsBounded ==
    \A t \in Tasks :
        /\ attempt[t] <= cfg.max_retries
        /\ \A i \in 1 .. Len(log[t]) :
               Cardinality(WritesOf(t, log[t][i].batch)) <= cfg.max_retries + 1
        /\ InFlush(t) =>
               /\ Cardinality(WritesOf(t, CurBatch(t))) = attempt[t]
               /\ sleeps[t] = [k \in 1 .. attempt[t] |-> RetryBackoffMs * k]

\* A task inside flush_batch can take its next turn of the loop.
C2_FlushEnabled ==
    \A t \in Tasks :
        InFlush(t) => IF cfg.sink = "ilp" THEN ENABLED WorkerFlush(t) ELSE ENABLED SqlFlush

\* Every turn of the loop ends the flush or is one more retry, after one more
\* sleep.
C2_FlushProgress ==
    \A t \in Tasks :
        InFlush(t) /\ log'[t] # log[t] =>
            \/ ~InFlush(t)'
            \/ /\ attempt'[t] = attempt[t] + 1
               /\ Len(sleeps'[t]) = Len(sleeps[t]) + 1
               /\ Len(log'[t]) = Len(log[t]) + 1

\* C2: in every sink (SQL and ILP) a batch gets at most max_retries + 1 write
\* attempts, the k-th retry comes after a sleep of retry_backoff * k, and a
\* flush_batch that has started ends: its next turn is always possible and
\* each turn either ends it or uses up one of the retries.
C2_RetryBudget ==
    /\ [](C2_AttemptsBounded /\ C2_FlushEnabled)
    /\ [][C2_FlushProgress]_vars

C2_Witness ==
    \E t \in Tasks :
        /\ cfg.max_retries = 2
        /\ Len(log[t]) >= 3
        /\ ~log[t][1].ok /\ ~log[t][2].ok /\ log[t][3].ok
        /\ log[t][1].batch = log[t][3].batch

\* ------------------------------------------------------------ C3
\* The step is a failed write of worker w made with retries remaining.
FailedWithRetriesLeft(w) ==
    /\ cfg.sink = "ilp"
    /\ Len(log'[w]) = Len(log[w]) + 1
    /\ ~Last(log'[w]).ok
    /\ attempt[w] < cfg.max_retries

\* C3: after an ILP write fails with retries remaining the worker is on a new
\* connection about to write the same payload again; a successful flush sent
\* the whole payload on the connection it ended on.
C3_ResendSameBatch ==
    /\ [][\A w \in Tasks : FailedWithRetriesLeft(w) =>
              /\ InFlush(w)'
              /\ conn'[w] # conn[w]
              /\ payload'[w] = payload[w]]_vars
    /\ [](\A w \in Tasks : \A i \in 1 .. Len(log[w]) :
              log[w][i].ok => log[w][i].sent = Len(log[w][i].batch))

\* The part of C3 that does not depend on the reconnect succeeding: within
\* one flush every write carries the same payload, each on a connection of
\* its own, and a successful write sent all of it.
C3_PayloadIdentical ==
    cfg.sink = "ilp" =>
        \A w \in Tasks : \A i, j \in 1 .. Len(log[w]) :
            /\ (i < j /\ Range(log[w][i].batch) \cap Range(log[w][j].batch) # {})
                   => /\ log[w][i].batch = log[w][j].batch
                      /\ log[w][i].conn < log[w][j].conn
                      /\ ~log[w][i].ok
            /\ log[w][i].ok => log[w][i].sent = Len(log[w][i].batch)

\* ------------------------------------------------------------ C4
\* Worker w's run ended in a fatal flush_batch (not in the initial connect).
FlushFatal(w) == cfg.sink = "ilp" /\ wres[w] = "Sink" /\ conn[w] > 0

\* C4: an ILP flush is fatal only after max_retries retries of its batch, and
\* each fatal flush has incremented questdb_ilp_sink_errors_total once.
C4_FatalOnlyWhenExhausted ==
    /\ \A w \in Tasks :
           FlushFatal(w) =>
               Cardinality(WritesOf(w, Last(log[w]).batch)) = cfg.max_retries + 1
    /\ metrics["questdb_ilp_sink_errors_total"] =
           Cardinality({w \in Tasks : FlushFatal(w)})

\* ------------------------------------------------------------ C5
\* Every one of the max_retries + 1 inserts of some batch has failed.
SqlExhausted ==
    /\ cfg.sink = "pgwire"
    /\ log[0] # <<>>
    /\ Cardinality({i \in WritesOf(0, Last(log[0]).batch) : ~log[0][i].ok})
           = cfg.max_retries + 1

C5_State ==
    /\ SqlExhausted <=> (cfg.sink = "pgwire" /\ result = "Sink")
    /\ cfg.sink = "pgwire" =>
           /\ metrics[SqlErrorCounter] = IF result = "Sink" THEN 1 ELSE 0
           /\ \A n \in {"questdb_sink_errors_total", "questdb_generation_sink_errors_total"} \ {SqlErrorCounter} :
                  metrics[n] = 0
           /\ result = "Sink" => pc[0] = "done"

\* C5: when all max_retries + 1 inserts of a batch fail the SQL sink counts
\* one sink error, run returns PipelineError::Sink, and from then on no
\* insert is made and nothing is taken from the input.
C5_SqlFatalEndsPipeline ==
    /\ []C5_State
    /\ [][cfg.sink = "pgwire" /\ result = "Sink" =>
              UNCHANGED <<emitted, srcEnded, log, buffer, metrics, result>>]_vars

C5_Witness ==
    /\ cfg.sink = "pgwire" /\ cfg.max_retries = 2 /\ cfg.batch_size = 1
    /\ result = "Sink"
    /\ Len(log[0]) = 4 /\ log[0][1].ok
    /\ ~srcEnded /\ Len(emitted) < MaxItems
    /\ metrics[SqlErrorCounter] = 1

\* ------------------------------------------------------------ C6
Key(id) == emitted[id].key

LineEnvs(batch) == {batch[i].env : i \in 1 .. Len(batch)}

\* The envelopes that were forwarded to worker w.
WorkerIds(w) ==
    Range(chan[w]) \cup Range(buffer[w])
        \cup UNION {LineEnvs(log[w][i].batch) : i \in 1 .. Len(log[w])}

C6_Routing ==
    /\ \A k \in Keys : \A n \in 0 .. MaxWorkers :
           shard_index(k, n) \in 0 .. (Max(n, 1) - 1)
    /\ cfg.sink = "ilp" =>
           /\ \A w \in Tasks : WorkerIds(w) # {} => w < Workers
           /\ \A w1, w2 \in Tasks : \A a \in WorkerIds(w1) : \A b \in WorkerIds(w2) :
                  Key(a) = Key(b) => w1 = w2

\* C6: shard_index is a function of the key and the worker count alone, with
\* values in 0 .. max(workers,1)-1, and all envelopes of one shard key are
\* forwarded to one and the same worker.
C6_ShardStable ==
    /\ []C6_Routing
    /\ [][\A k \in Keys : \A n \in 0 .. MaxWorkers :
              shard_index(k, n)' = shard_index(k, n)]_vars

C6_Witness ==
    /\ cfg.sink = "ilp" /\ Workers = 2
    /\ \E w1, w2 \in Tasks : \E a, b \in WorkerIds(w1) : \E c \in WorkerIds(w2) :
           a # b /\ Key(a) = Key(b) /\ w1 # w2 /\ Key(c) # Key(a)

\* ------------------------------------------------------------ C7
\* The envelopes whose line has reached the store, in a whole or a cut write.
StoreSeen ==
    UNION {UNION {{log[w][j].batch[i].env : i \in 1 .. log[w][j].sent} :
                      j \in 1 .. Len(log[w])} : w \in Tasks}

\* Envelope a was handed to the sink.
EnteredSink(a) == emitted[a].kind = "ok" /\ a \notin rejected

C7_Step ==
    cfg.sink = "ilp" =>
        \A w \in Tasks :
            Len(log'[w]) = Len(log[w]) + 1 =>
                LET e == Last(log'[w]) IN
                \A i \in 1 .. e.sent : \A a \in 1 .. (e.batch[i].env - 1) :
                    (EnteredSink(a) /\ Key(a) = Key(e.batch[i].env)) =>
                        \/ a \in StoreSeen
                        \/ \E j \in 1 .. (i - 1) : e.batch[j].env = a

\* C7: whenever the line of an envelope b reaches the store, the line of every
\* earlier envelope of the same shard key that entered the sink has reached
\* it before, whatever the interleaving and the retries.
C7_PerKeyOrder == [][C7_Step]_vars

C7_Witness ==
    /\ cfg.sink = "ilp" /\ Workers = 2
    /\ \E w \in Tasks :
           /\ Len(log[w]) >= 2 /\ ~log[w][1].ok /\ log[w][1].sent = 1
           /\ \E a, b \in StoreSeen : a < b /\ Key(a) = Key(b) /\ a \in WorkerIds(w)
    /\ \E c \in StoreSeen : \E a \in StoreSeen : Key(a) # Key(c)

\* ------------------------------------------------------------ C8
HeldIdx == shard_index(shard_key(emitted[held]), Workers)

\* The step is the coordinator offering an envelope to a channel whose
\* worker has exited.
OfferToClosed ==
    \/ /\ cpc = "send" /\ cpc' # "send"
       /\ ~rxOpen[HeldIdx]
    \/ /\ cpc = "recv" /\ Len(emitted') = Len(emitted) + 1
       /\ Last(emitted').kind = "ok" /\ Len(emitted') \notin rejected'
       /\ ~rxOpen[shard_index(shard_key(Last(emitted')), Workers)]

C8_State ==
    cfg.sink = "ilp" =>
        /\ cpc = "join" => ~txOpen /\ srcEnded
        /\ cpc = "done" <=> result # "running"
        /\ result \in {"running", "Ok", "Sink"}
        /\ result = "Ok" =>
               \A w \in 0 .. (Workers - 1) : pc[w] = "done" /\ wres[w] = "Ok"
        /\ (cpc = "send" /\ ~rxOpen[HeldIdx]) => ENABLED CoordSend

C8_Step ==
    cfg.sink = "ilp" =>
        /\ OfferToClosed => result' = "Sink" /\ cpc' = "done" /\ chan' = chan
        /\ (cpc = "recv" /\ cpc' = "join") => ~txOpen'
        /\ cpc = "done" =>
               /\ emitted' = emitted
               /\ \A w \in Tasks : Len(chan'[w]) <= Len(chan[w])

\* C8: at the end of the input the coordinator drops every sender and joins
\* the workers, returning Ok only if every worker did; a send to a worker
\* that has exited makes run return PipelineError::Sink in that step, and
\* nothing is forwarded after run has returned.
C8_CoordinatorErrors == []C8_State /\ [][C8_Step]_vars

C8_Witness ==
    /\ cfg.sink = "ilp" /\ Workers = 2
    /\ result = "Sink" /\ ~srcEnded /\ Len(emitted) < MaxItems
    /\ \E w \in Tasks : wres[w] = "Sink" /\ conn[w] > 0
    /\ \E w \in Tasks : wres[w] = "running"

\* ------------------------------------------------------------ C9
\* The envelopes the stream has yielded.
Taken == {id \in 1 .. Len(emitted) : emitted[id].kind = "ok"}

InChannel(id) == \E w \in Tasks : id \in Range(chan[w])
InBuffer(id) == id \notin flushed /\ \E t \in Tasks : id \in Range(buffer[t])
Written(id) == id \in flushed
Rejected(id) == id \in rejected
HeldBySend(id) == held = id

Count(tests) == Cardinality({i \in 1 .. Len(tests) : tests[i]})

\* C9 as stated: while no sink has failed fatally every envelope taken from
\* the source is in exactly one of: rejected, a worker channel, a sink buffer,
\* the store.
C9_FourPlaces ==
    ~AnyFatal =>
        \A id \in Taken :
            Count(<<Rejected(id), InChannel(id), InBuffer(id), Written(id)>>) = 1

\* C9 amended: the coordinator's suspended send is a fifth place; no channel
\* holds more than 2 * batch_size envelopes.
C9_NoLoss ==
    ~AnyFatal =>
        /\ \A id \in Taken :
               Count(<<Rejected(id), HeldBySend(id), InChannel(id), InBuffer(id),
                       Written(id)>>) = 1
        /\ \A w \in Tasks : Len(chan[w]) <= ChanCap

C9_Witness ==
    /\ ~AnyFatal /\ cfg.sink = "ilp"
    /\ held # NoEnv /\ held \in Taken
    /\ Len(chan[HeldIdx]) = ChanCap

\* ------------------------------------------------------------ C10
\* One turn of handler h's loop, on either endpoint.
HandlerStep(h) == ingest_array(h) \/ ingest_ndjson(h)

\* The step is a turn of h's loop.
Stepped(h) == hpc[h] = "loop" /\ (hpc'[h] # hpc[h] \/ seen'[h] # seen[h])

\* The turn takes a record that gets as far as the try-send.
OffersRecord(h) ==
    /\ Stepped(h)
    /\ Len(seen'[h]) = Len(seen[h]) + 1
    /\ LET r == Last(seen'[h]) IN
         /\ r.text = "good"
         /\ r.len <= hcfg.max_line_bytes
         /\ req[h].endpoint = "ndjson" =>
                accepted[h] + parse_errors[h] + 1 <= hcfg.max_request_records

C10_State ==
    /\ Len(queue) <= hcfg.channel_capacity
    /\ \A h \in Handlers :
           /\ hpc[h] = "loop" => ENABLED HandlerStep(h)
           /\ Len(seen[h]) <= MaxBody

C10_Step ==
    \A h \in Handlers :
        Stepped(h) =>
            /\ hpc'[h] = "done" \/ Len(seen'[h]) = Len(seen[h]) + 1
            /\ queue' # queue =>
                   /\ OffersRecord(h)
                   /\ queue' = Append(queue, [req |-> h, rec |-> Len(seen'[h])])
            /\ (OffersRecord(h) /\ rxAlive /\ Len(queue) = hcfg.channel_capacity) =>
                   status'[h] = 429 /\ hpc'[h] = "done" /\ queue' = queue
            /\ (OffersRecord(h) /\ rxAlive /\ Len(queue) < hcfg.channel_capacity) =>
                   Len(queue') = Len(queue) + 1

\* C10: a handler offers each record to the queue once, without blocking: a
\* record that meets a full queue is answered 429 in that step; a handler in
\* its loop can always take its next turn, whatever the consumer does, and
\* each turn takes one record or answers, so a request is answered within
\* the length of its body; the queue never exceeds channel_capacity.
C10_NonBlockingIntake == []C10_State /\ [][C10_Step]_vars

C10_Witness ==
    /\ delivered = <<>> /\ rxAlive
    /\ Len(queue) = hcfg.channel_capacity
    /\ \E h1, h2 \in Handlers :
           /\ req[h1].endpoint = "array" /\ status[h1] = 429
           /\ req[h2].endpoint = "ndjson" /\ status[h2] = 429
           /\ \E i \in 1 .. Len(queue) : queue[i].req = h1

\* ------------------------------------------------------------ C11
\* The envelopes of handler h that are in the queue, oldest first.
QueuedBy(h) == SelectSeq(queue, LAMBDA e : e.req = h)

\* The step is handler h answering with the given status.
Answers(h, code) == status[h] = 0 /\ hpc'[h] = "done" /\ status'[h] = code

C11_Step ==
    \A h \in Handlers :
        /\ Answers(h, 429) => queue' = queue /\ delivered' = delivered
        /\ hpc[h] = "done" =>
               /\ seen'[h] = seen[h] /\ status'[h] = status[h] /\ hpc'[h] = "done"
               /\ Len(queue') > Len(queue) => Last(queue').req # h

\* C11: the step that answers 429 leaves the queue as it was, the request's
\* own earlier envelopes included, and an answered request takes no further
\* record and enqueues nothing more.
C11_PartialAcceptKept == [][C11_Step]_vars

C11_Witness ==
    \E h \in Handlers :
        /\ status[h] = 429 /\ rxAlive /\ delivered = <<>>
        /\ Len(QueuedBy(h)) = 1 /\ Len(queue) = 2
        /\ queue[1].req = h /\ queue[2].req # h
        /\ hpc[queue[2].req] = "loop"

\* ------------------------------------------------------------ C12
BothAnswered == \A h \in Handlers : hpc[h] = "done"

\* C12 as stated: whatever the interleaving, the post whose record entered the
\* queue first has enqueued PostCapacity envelopes and got 429, and the other
\* post has enqueued none and got 429.
C12_FirstTakesAll ==
    BothAnswered =>
        /\ \A h \in Handlers : status[h] = 429
        /\ \A h \in Handlers :
               Len(QueuedBy(h)) = IF queue[1].req = h THEN PostCapacity ELSE 0

\* The records of post h that are in the queue are its first ones, in order.
PrefixQueued(h) ==
    LET q == QueuedBy(h) IN \A i \in 1 .. Len(q) : q[i].rec = i

\* Post h was handled to its end before the other post offered a record.
RanAlone(h) == \A i \in 1 .. Len(queue) : queue[i].req = h

\* C12 amended: both posts get 429 and together they have enqueued
\* PostCapacity envelopes, each post its first records in order; a post whose
\* records filled the queue alone got all PostCapacity slots, the other none.
C12_SharedCapacity ==
    /\ \A h \in Handlers : PrefixQueued(h) /\ status[h] \in {0, 429}
    /\ BothAnswered =>
           /\ \A h \in Handlers : status[h] = 429
           /\ Len(queue) = PostCapacity
           /\ \A h \in Handlers :
                  RanAlone(h) => Len(QueuedBy(h)) = PostCapacity

C12_Witness ==
    /\ BothAnswered /\ Len(queue) = PostCapacity
    /\ \E h1, h2 \in Handlers :
           /\ Len(QueuedBy(h1)) = 3 /\ Len(QueuedBy(h2)) = PostCapacity - 3
           /\ status[h1] = 429 /\ status[h2] = 429

\* ------------------------------------------------------------ C13
\* Handler h serves an array request that got past the extractor, authorize
\* and the length check, and some element of its body has a ts that is not
\* RFC3339.
ArrayWithBadElement(h) ==
    /\ req[h].endpoint = "array" /\ req[h].extract = "ok"
    /\ authorize(req[h].header, hcfg.auth_bearer_token)
    /\ Len(req[h].body) <= hcfg.max_request_records
    /\ \E i \in 1 .. Len(req[h].body) : req[h].body[i] = "badts"

\* The envelopes of handler h that the consumer has taken.
DeliveredOf(h) == SelectSeq(delivered, LAMBDA e : e.req = h)

\* C13: an array request with an element that fails to parse enqueues no
\* envelope, wherever the bad element stands, and is answered 400.
C13_BadElementAcceptsNothing ==
    \A h \in Handlers :
        ArrayWithBadElement(h) =>
            /\ QueuedBy(h) = <<>> /\ DeliveredOf(h) = <<>>
            /\ hpc[h] = "done" => status[h] = 400

\* ------------------------------------------------------------ C14
\* Handler h has a request whose Authorization header is not the configured
\* token's "Bearer <token>".
BadCredentials(h) ==
    /\ req[h] # NoRequest
    /\ hcfg.auth_bearer_token # "none"
    /\ req[h].header # "Bearer " \o hcfg.auth_bearer_token

\* C14: with a token configured a request without the exact header is
\* answered 401 and enqueues nothing; with no token configured no request is
\* answered 401.
C14_AuthFirst ==
    \A h \in Handlers :
        /\ BadCredentials(h) =>
               status[h] = 401 /\ QueuedBy(h) = <<>> /\ DeliveredOf(h) = <<>>
        /\ hcfg.auth_bearer_token = "none" => status[h] # 401

\* The part of C14 that holds: such a request never enqueues, and is answered
\* 401 whenever its body got past the endpoint's extractor.
C14_HandlerAuth ==
    \A h \in Handlers :
        /\ BadCredentials(h) =>
               /\ QueuedBy(h) = <<>> /\ DeliveredOf(h) = <<>> /\ hpc[h] = "done"
               /\ req[h].extract = "ok" => status[h] = 401
        /\ hcfg.auth_bearer_token = "none" => status[h] # 401

\* ------------------------------------------------------------ C15
\* Handler h's request got past the extractor and authorize.
Admitted(h) ==
    /\ req[h] # NoRequest /\ req[h].extract = "ok"
    /\ authorize(req[h].header, hcfg.auth_bearer_token)

\* The non-blank lines handler h has read.
NonBlank(h) == SelectSeq(seen[h], LAMBDA l : l.len > 0)

AllShort(h) == \A i \in 1 .. Len(seen[h]) : seen[h][i].len <= hcfg.max_line_bytes

\* C15: an array of more than max_request_records elements is answered 413
\* before any element is taken; an array of at most that many is never
\* answered 413.  An NDJSON request is answered 413 in the step that reads its
\* (max_request_records + 1)-th non-blank line, and while it has read at most
\* max_request_records non-blank lines, none too long, it is not answered 413.
C15_RecordLimit ==
    \A h \in Handlers :
        /\ (Admitted(h) /\ req[h].endpoint = "array") =>
               IF Len(req[h].body) > hcfg.max_request_records
               THEN /\ status[h] = 413 /\ seen[h] = <<>>
                    /\ QueuedBy(h) = <<>> /\ DeliveredOf(h) = <<>>
               ELSE status[h] # 413
        /\ (Admitted(h) /\ req[h].endpoint = "ndjson") =>
               /\ Len(NonBlank(h)) <= hcfg.max_request_records + 1
               /\ Len(NonBlank(h)) = hcfg.max_request_records + 1 => status[h] = 413
               /\ (Len(NonBlank(h)) <= hcfg.max_request_records /\ AllShort(h)) =>
                      status[h] # 413

C15_Witness ==
    \E h1, h2 \in Handlers :
        /\ req[h1].endpoint = "array" /\ Admitted(h1) /\ status[h1] = 413
        /\ req[h2].endpoint = "ndjson" /\ status[h2] = 413 /\ AllShort(h2)
        /\ Len(QueuedBy(h2)) + Len(DeliveredOf(h2)) = hcfg.max_request_records

\* Requests of exactly max_request_records records that ran to their end.
C15_WitnessAtLimit ==
    \E h1, h2 \in Handlers :
        /\ req[h1].endpoint = "array" /\ Len(req[h1].body) = hcfg.max_request_records
        /\ status[h1] = 200
        /\ req[h2].endpoint = "ndjson" /\ Len(NonBlank(h2)) = hcfg.max_request_records
        /\ status[h2] = 200

\* ------------------------------------------------------------ C16
\* The bytes of a line as the client sent it, without the line terminator.
RawBytes(l) == l.len + l.pad

\* Line i of handler h's body is where the request ended, with 413.
EndedAt(h, i) == i = Len(seen[h]) /\ hpc[h] = "done" /\ status[h] = 413

\* Nothing of line i of handler h's body went to the queue.
NotEnqueued(h, i) ==
    /\ \A k \in 1 .. Len(queue) : queue[k] # [req |-> h, rec |-> i]
    /\ \A k \in 1 .. Len(delivered) : delivered[k] # [req |-> h, rec |-> i]

\* C16 as stated: a line of max_line_bytes + 1 bytes ends the request with
\* 413; a line of exactly max_line_bytes bytes does not.
C16_RawLineLimit ==
    \A h \in Handlers : \A i \in 1 .. Len(seen[h]) :
        /\ RawBytes(seen[h][i]) = hcfg.max_line_bytes + 1 => EndedAt(h, i)
        /\ RawBytes(seen[h][i]) = hcfg.max_line_bytes =>
               ~(EndedAt(h, i) /\ Len(NonBlank(h)) <= hcfg.max_request_records)

C16_TrimmedState ==
    \A h \in Handlers : \A i \in 1 .. Len(seen[h]) :
        /\ seen[h][i].len > hcfg.max_line_bytes => EndedAt(h, i) /\ NotEnqueued(h, i)
        /\ seen[h][i].len <= hcfg.max_line_bytes =>
               ~(EndedAt(h, i) /\ Len(NonBlank(h)) <= hcfg.max_request_records)

\* What the handler does guarantee: the limit applies to the line after
\* trim().  A line whose trimmed length is max_line_bytes is processed
\* normally, one whose trimmed length is max_line_bytes + 1 ends the request
\* with 413 and is not enqueued, and the request reads no line after it.
C16_TrimmedLineLimit ==
    /\ []C16_TrimmedState
    /\ [][\A h \in Handlers : hpc[h] = "done" =>
              seen'[h] = seen[h] /\ Len(QueuedBy(h)') <= Len(QueuedBy(h))]_vars

C16_Witness ==
    \E h \in Handlers :
        /\ Len(seen[h]) = 2 /\ status[h] = 413
        /\ seen[h][1] = [text |-> "good", len |-> MaxLineBytes, pad |-> 1]
        /\ seen[h][2] = [text |-> "good", len |-> MaxLineBytes + 1, pad |-> 0]
        /\ accepted[h] = 1 /\ ~NotEnqueued(h, 1)

\* ------------------------------------------------------------ C17
\* The envelopes of handler h's request, delivered and queued, oldest first.
EnvelopesOf(h) == SelectSeq(delivered \o queue, LAMBDA e : e.req = h)

\* The positions in the body of the lines that parse / that fail to parse.
GoodLines(h) == {i \in 1 .. Len(seen[h]) : seen[h][i].text = "good"}
BadLines(h) == {i \in 1 .. Len(seen[h]) : seen[h][i].text \in {"badjson", "badts"}}

\* A lenient NDJSON request read to the end of its body and answered 200.
LenientSummary(h) ==
    /\ req[h] # NoRequest /\ req[h].endpoint = "ndjson"
    /\ ~hcfg.ndjson_strict
    /\ hpc[h] = "done" /\ status[h] = 200

\* C17: a lenient NDJSON request that reaches the end of its body is answered
\* 200 with accepted = the number of envelopes it enqueued and parse_errors =
\* the number of non-blank lines that failed JSON or timestamp parsing; the
\* bad lines are skipped and every good line, also after a bad one, is
\* enqueued, in line order.  The envelopes are counted while the receiver
\* that holds them is alive.
C17_LenientSummary ==
    \A h \in Handlers :
        LenientSummary(h) =>
            /\ parse_errors[h] = Cardinality(BadLines(h))
            /\ accepted[h] = Cardinality(GoodLines(h))
            /\ rxAlive =>
                 /\ accepted[h] = Len(EnvelopesOf(h))
                 /\ {EnvelopesOf(h)[k].rec : k \in 1 .. Len(EnvelopesOf(h))} = GoodLines(h)
                 /\ \A k \in 1 .. Len(EnvelopesOf(h)) - 1 :
                        EnvelopesOf(h)[k].rec < EnvelopesOf(h)[k + 1].rec

C17_Witness ==
    \E h \in Handlers :
        /\ LenientSummary(h) /\ rxAlive
        /\ Len(seen[h]) = 2
        /\ seen[h][1].text = "badts" /\ seen[h][2].text = "good"
        /\ accepted[h] = 1 /\ parse_errors[h] = 1
        /\ EnvelopesOf(h) = <<[req |-> h, rec |-> 2]>>

\* ------------------------------------------------------------ C18
\* Line i of handler h's body was handed to the parser: it is not blank, not
\* longer than max_line_bytes and within the first max_request_records
\* non-blank lines.
Parsed(h, i) ==
    /\ seen[h][i].len > 0 /\ seen[h][i].len <= hcfg.max_line_bytes
    /\ Len(SelectSeq(SubSeq(seen[h], 1, i), LAMBDA l : l.len > 0)) <= hcfg.max_request_records

C18_State ==
    \A h \in Handlers :
        hcfg.ndjson_strict =>
            \A i \in BadLines(h) :
                Parsed(h, i) =>
                    /\ i = Len(seen[h])
                    /\ hpc[h] = "done" /\ status[h] = 400
                    /\ NotEnqueued(h, i)

\* C18: in strict mode the first line that fails JSON or timestamp parsing
\* ends the request with 400, and the request reads, parses and enqueues no
\* line after it.
C18_StrictFirstError ==
    /\ []C18_State
    /\ [][\A h \in Handlers : hpc[h] = "done" =>
              /\ seen'[h] = seen[h] /\ status'[h] = status[h]
              /\ Len(EnvelopesOf(h)') <= Len(EnvelopesOf(h))]_vars

C18_Witness ==
    \E h \in Handlers :
        /\ hcfg.ndjson_strict /\ req[h] # NoRequest /\ req[h].endpoint = "ndjson"
        /\ Len(seen[h]) = 2
        /\ seen[h][1].text = "good" /\ seen[h][2].text = "badts"
        /\ hpc[h] = "done" /\ status[h] = 400
        /\ accepted[h] = 1 /\ parse_errors[h] = 1

\* ------------------------------------------------------------ C19
C19_Step ==
    \A h \in Handlers :
        (~rxAlive /\ OffersRecord(h)) =>
            /\ Answers(h, 500)
            /\ queue' = queue /\ delivered' = delivered
            /\ accepted'[h] = accepted[h]

\* C19: once the receiver has been dropped it stays dropped, every request
\* whose record reaches the try-send is answered 500 in that step, and no
\* envelope enters the queue or the stream.
C19_ClosedQueue ==
    /\ [](~rxAlive => queue = <<>>)
    /\ [][~rxAlive => ~rxAlive' /\ delivered' = delivered]_vars
    /\ [][C19_Step]_vars

C19_Witness ==
    /\ ~rxAlive
    /\ \E h1, h2 \in Handlers :
           /\ req[h1] # NoRequest /\ req[h1].endpoint = "array"
           /\ status[h1] = 500 /\ DeliveredOf(h1) # <<>>
           /\ req[h2] # NoRequest /\ req[h2].endpoint = "ndjson"
           /\ status[h2] = 500 /\ accepted[h2] = 0

\* ------------------------------------------------------------ C20
InWindow(ts) == MinTs <= ts /\ ts <= MaxTs

TransformRejections ==
    {"kwh must be non-negative", "mw must be non-negative", "timestamp out of allowed range"}

\* C20: validation accepts a payload if and only if its primary metric is
\* finite and >= 0 and its ts lies in the sanity window, and for every metric
\* value, NaN and the infinities included, it returns accept or a Transform
\* rejection.
C20_AcceptIffValid ==
    vresult # "none" =>
        /\ vresult \in {"ok"} \cup TransformRejections
        /\ vresult = "ok" <=>
               /\ is_finite(venv.metric) /\ venv.metric.v >= 0
               /\ InWindow(venv.ts)

\* What the functions do guarantee: they always return, and they accept
\* exactly the payloads whose metric does not compare below zero and whose
\* ts lies in the window.
C20_AcceptUnlessBelowZero ==
    vresult # "none" =>
        /\ vresult \in {"ok"} \cup TransformRejections
        /\ vresult = "ok" <=> ~f64_lt(venv.metric, Finite(0)) /\ InWindow(venv.ts)

C20_NonFiniteAccepted ==
    /\ vresult = "ok" /\ venv.metric = NaN /\ InWindow(venv.ts)

\* ------------------------------------------------------------ C21
\* The metric rule's own message, per record kind.
MetricRejection(p) ==
    IF p.record = "meter_usage" THEN "kwh must be non-negative" ELSE "mw must be non-negative"

\* The metric is one the service takes as valid: finite and >= 0.
ValidMetric(x) == is_finite(x) /\ x.v >= 0

\* C21: the window is closed at both ends: ts at either end is accepted, the
\* instant before the lower end and the instant after the upper end are
\* rejected with 'timestamp out of allowed range'; a metric of exactly 0 is
\* accepted and a finite negative metric is rejected; when both the metric and
\* ts are invalid the metric error is the one reported.
C21_ClosedWindow ==
    vresult # "none" =>
        /\ (ValidMetric(venv.metric) /\ venv.ts \in {MinTs, MaxTs}) => vresult = "ok"
        /\ (ValidMetric(venv.metric) /\ venv.ts \in {MinTs - 1, MaxTs + 1}) =>
               vresult = "timestamp out of allowed range"
        /\ (venv.metric = Finite(0) /\ InWindow(venv.ts)) => vresult = "ok"
        /\ (is_finite(venv.metric) /\ venv.metric.v < 0) => vresult = MetricRejection(venv)
        /\ (~ValidMetric(venv.metric) /\ ~InWindow(venv.ts)) => vresult = MetricRejection(venv)

\* What the functions do guarantee: the same, with the metric error taking
\* precedence exactly when the metric compares below zero.
C21_ClosedWindowBelowZero ==
    vresult # "none" =>
        /\ (ValidMetric(venv.metric) /\ venv.ts \in {MinTs, MaxTs}) => vresult = "ok"
        /\ (ValidMetric(venv.metric) /\ venv.ts \in {MinTs - 1, MaxTs + 1}) =>
               vresult = "timestamp out of allowed range"
        /\ (venv.metric = Finite(0) /\ InWindow(venv.ts)) => vresult = "ok"
        /\ f64_lt(venv.metric, Finite(0)) => vresult = MetricRejection(venv)

C21_BothInvalid ==
    /\ vresult = "timestamp out of allowed range"
    /\ venv.metric = NaN /\ venv.ts = MinTs - 1

\* ------------------------------------------------------------ C22
\* The rejected counter of the pipeline's record kind, and of the other kind.
RejectedCounter ==
    IF cfg.record = "meter_usage" THEN "validation_meter_usage_rejected_total"
    ELSE "validation_generation_output_rejected_total"

OtherRejectedCounter ==
    IF cfg.record = "meter_usage" THEN "validation_generation_output_rejected_total"
    ELSE "validation_meter_usage_rejected_total"

\* The envelopes of a logged write: the SQL sink writes its buffer, the ILP
\* sink the encoded lines.
BatchEnvs(batch) == IF cfg.sink = "ilp" THEN LineEnvs(batch) ELSE Range(batch)

\* Envelope id is somewhere in a sink: in a worker channel, held by the
\* coordinator's send, in a buffer, in an encoded payload, in a write attempt
\* or among the flushed.
InSink(id) ==
    \/ InChannel(id) \/ held = id \/ id \in flushed
    \/ \E t \in Tasks :
           \/ id \in Range(buffer[t])
           \/ id \in LineEnvs(payload[t])
           \/ \E j \in 1 .. Len(log[t]) : id \in BatchEnvs(log[t][j].batch)

C22_State ==
    /\ metrics[RejectedCounter] = Cardinality(rejected)
    /\ metrics[OtherRejectedCounter] = 0
    /\ \A id \in rejected : emitted[id].kind = "ok" /\ ~InSink(id)

\* The step is the stream yielding an envelope that validation rejects.
Rejects == rejected' # rejected

C22_Step ==
    Rejects =>
        /\ Cardinality(rejected') = Cardinality(rejected) + 1
        /\ metrics'[RejectedCounter] = metrics[RejectedCounter] + 1
        /\ UNCHANGED <<pc, cpc, result, buffer, chan, held, payload, log, flushed>>
        /\ ~srcEnded'

\* C22: an envelope rejected by validation adds exactly 1 to the rejected
\* counter of its kind, is never in a sink buffer, a channel, an encoded
\* payload, a write attempt or the store, and the step that rejects it leaves
\* the sink where it was, taking the next item of the stream.
C22_RejectedDropped == []C22_State /\ [][C22_Step]_vars

C22_Witness ==
    \E a, b \in 1 .. Len(emitted) :
        /\ a < b /\ a \in rejected
        /\ emitted[b].kind = "ok" /\ b \in flushed
        /\ metrics[RejectedCounter] = 1

\* ------------------------------------------------------------ C23
\* A sequence of envelope ids in the order the source emitted them, each once.
Ascending(seq) == \A i \in 1 .. Len(seq) - 1 : seq[i] < seq[i + 1]

\* Validation rejects the payload of envelope id.
Invalid(id) == ValidationApply(emitted[id]).verdict # "ok"

C23_State ==
    /\ Ascending(buffer[0])
    /\ \A j \in 1 .. Len(log[0]) :
           /\ Ascending(log[0][j].batch)
           /\ \A k \in (j + 1) .. Len(log[0]) :
                  \/ log[0][k].batch = log[0][j].batch
                  \/ \A a \in Range(log[0][j].batch), b \in Range(log[0][k].batch) : a < b
           /\ \A a \in Range(log[0][j].batch), b \in Range(buffer[0]) :
                  a < b \/ buffer[0] = log[0][j].batch
    /\ \A id \in Taken :
           /\ InSink(id) <=> id \notin rejected
           /\ id \in rejected <=> (cfg.transforms >= 1 /\ Invalid(id))

\* The step hands an envelope to the sink.
C23_Step ==
    (buffer'[0] # buffer[0] /\ buffer'[0] # <<>>) =>
        /\ Len(emitted') = Len(emitted) + 1
        /\ buffer'[0] = Append(buffer[0], Len(emitted'))
        /\ \A id \in Taken : InSink(id) => id < Len(emitted')

\* C23: for every number of transforms in the chain the sink receives the
\* envelopes in the order the source emitted them, each at most once, and
\* the envelopes it does not receive are exactly those validation rejects.
C23_OrderPreserved == []C23_State /\ [][C23_Step]_vars

C23_Witness ==
    /\ cfg.transforms = MaxTransforms /\ cfg.batch_size = 2
    /\ Len(emitted) = 3
    /\ rejected = {2}
    /\ Len(log[0]) = 1 /\ log[0][1].batch = <<1, 3>>
    /\ flushed = {1, 3}

\* ------------------------------------------------------------ C24
\* The value of the event_id tag of an encoded line: the line starts with the
\* measurement, ",", "event_id", "=".
EventIdTag(line) == line[5]

Has(line, tok) == \E i \in 1 .. Len(line) : line[i] = tok
Pos(line, tok) == CHOOSE i \in 1 .. Len(line) : line[i] = tok
Occurrences(line, tok) == Cardinality({i \in 1 .. Len(line) : line[i] = tok})

\* The keys of the line of payload p in the order the claim gives them,
\* the absent optional ones left out.
KeysInOrder(p) ==
    <<"event_id", IdentityKey(p.record)>>
        \o SelectSeq(OptTagKeys(p.record),
                     LAMBDA k : \E i \in 1 .. Len(p.tags) :
                                    OptTagKeys(p.record)[i] = k /\ is_some(p.tags[i]))
        \o <<MetricKey(p.record)>>
        \o SelectSeq(OptFieldKeys(p.record),
                     LAMBDA k : \E i \in 1 .. Len(p.fields) :
                                    OptFieldKeys(p.record)[i] = k /\ is_some(p.fields[i]))

AllKeys(p) ==
    {"event_id", IdentityKey(p.record), MetricKey(p.record)}
        \cup Range(OptTagKeys(p.record)) \cup Range(OptFieldKeys(p.record))

LineLayout(p, line) ==
    LET keys == KeysInOrder(p) IN
    /\ line[1] = p.record /\ line[2] = ","
    \* exactly the keys of the present tags and fields, each once, in order
    /\ \A k \in AllKeys(p) :
           Occurrences(line, k) = IF k \in Range(keys) THEN 1 ELSE 0
    /\ \A i \in 1 .. Len(keys) - 1 : Pos(line, keys[i]) < Pos(line, keys[i + 1])
    /\ \A k \in Range(keys) : line[Pos(line, k) + 1] = "="
    \* a tag key follows a comma; the first field follows the space that ends
    \* the tags; a later field follows a comma
    /\ \A k \in Range(keys) :
           line[Pos(line, k) - 1] = IF k = MetricKey(p.record) THEN " " ELSE ","
    \* the required field is there with its value
    /\ line[Pos(line, MetricKey(p.record)) + 2] = ToString(p.metric)
    \* the line ends with a space and ts in unix nanoseconds
    /\ line[Len(line) - 1] = " " /\ line[Len(line)] = ToString(p.ts)
    /\ Pos(line, keys[Len(keys)]) < Len(line) - 1

\* C25: write_ilp_line emits the measurement, the tags event_id, identity and
\* each present optional tag in the fixed order, a space, the required metric
\* field and each present optional field, a space and ts; an absent optional
\* tag or field contributes no key, and every line has at least one field.
C25_LineLayout ==
    \A i \in 1 .. Len(vresult) : LineLayout(venv.payload, vresult[i].line)

C25_Witness ==
    /\ Len(vresult) >= 1
    /\ venv.payload.record = "generation_output"
    /\ venv.payload.tags = <<None, None, Some(<<"a">>)>>
    /\ venv.payload.fields = <<None>>
    /\ venv.payload.id = <<"a">> /\ venv.payload.metric = 1
    /\ vresult[1].line =
           <<"generation_output", ",", "event_id", "=", event_id_generation(venv.payload),
             ",", "plant_id", "=", "a", ",", "fuel_type", "=", "a",
             " ", "mw", "=", "1", " ", "1">>

\* ------------------------------------------------------------ C26
\* The number of characters among the first i of str that get a backslash.
EscapesUpTo(str, i) == Cardinality({j \in 1 .. i : str[j] \in Specials})

\* esc is str with one backslash put before every ',', ' ' and '=' and every
\* other character copied.
EscapedForm(str, esc) ==
    /\ Len(esc) = Len(str) + EscapesUpTo(str, Len(str))
    /\ \A i \in 1 .. Len(str) :
           /\ esc[i + EscapesUpTo(str, i)] = str[i]
           /\ str[i] \in Specials => esc[i + EscapesUpTo(str, i) - 1] = "\\"

\* The k-th smallest element of a set of numbers.
Nth(S, k) == CHOOSE i \in S : Cardinality({j \in S : j <= i}) = k

\* The reverse of the escape rule: a backslash that stands before ',', ' ' or
\* '=' is dropped, every other character is kept.
unescape(esc) ==
    LET kept == {i \in 1 .. Len(esc) :
                    ~(esc[i] = "\\" /\ i < Len(esc) /\ esc[i + 1] \in Specials)}
    IN [k \in 1 .. Cardinality(kept) |-> esc[Nth(kept, k)]]

\* The value of the identity tag as it stands in an encoded line: it starts
\* after measurement , event_id = digest , key =
IdentityText(p, line) == SubSeq(line, 9, 8 + Len(ilp_escape_ident(p.id)))

\* C26: ilp_escape_ident puts one backslash before every ',', ' ' and '=' and
\* copies every other character unchanged, and unescaping the escaped form
\* gives the string back.
C26_EscapeRoundTrip ==
    \A i \in 1 .. Len(vresult) :
        LET str == venv.payload.id
            esc == IdentityText(venv.payload, vresult[i].line)
        IN /\ esc = ilp_escape_ident(str)
           /\ EscapedForm(str, esc)
           /\ unescape(esc) = str

C26_Witness ==
    /\ Len(vresult) >= 1
    /\ venv.payload.id = <<"\\", "=">>
    /\ IdentityText(venv.payload, vresult[1].line) = <<"\\", "\\", "=">>
    /\ unescape(<<"\\", "\\", "=">>) = <<"\\", "=">>

\* ------------------------------------------------------------ C27
\* The positions of text where sep stands as a separator: not behind a
\* backslash, when sep is a character the escape rule covers.
Cuts(text, sep) ==
    {i \in 1 .. Len(text) :
        /\ text[i] = sep
        /\ sep \in Specials => ~(i > 1 /\ text[i - 1] = "\\")}

\* text split at its separators.
Split(text, sep) ==
    LET cuts == Cuts(text, sep)
        n == Cardinality(cuts)
        Cut(k) == IF k = 0 THEN 0 ELSE IF k = n + 1 THEN Len(text) + 1 ELSE Nth(cuts, k)
    IN [k \in 1 .. (n + 1) |-> SubSeq(text, Cut(k - 1) + 1, Cut(k) - 1)]

\* The lines of a batch: the text split at the line feeds, without the empty
\* piece after the last one.
DecodeLines(text) ==
    LET pieces == Split(text, "\n") IN
    IF Last(pieces) = <<>> THEN SubSeq(pieces, 1, Len(pieces) - 1) ELSE pieces

Malformed == [record |-> "malformed"]

\* key=value pairs, each split at its unescaped '=' and unescaped.
Pairs(items) ==
    [i \in 1 .. Len(items) |->
        LET kv == Split(items[i], "=") IN
        IF Len(kv) = 2 THEN [key |-> unescape(kv[1]), value |-> unescape(kv[2])]
        ELSE [key |-> <<"malformed">>, value |-> <<>>]]

\* The value the pairs give for key, as an Option.
Lookup(pairs, key) ==
    IF \E i \in 1 .. Len(pairs) : pairs[i].key = <<key>>
    THEN Some((CHOOSE e \in Range(pairs) : e.key = <<key>>).value)
    ELSE None

\* decode: the line split at its unescaped spaces into tags, fields and ts,
\* these at their unescaped commas, the pairs put back into the struct's
\* fields.  Numbers stay in their text form.
decode(line) ==
    LET parts == Split(line, " ") IN
    IF Len(parts) # 3 THEN Malformed
    ELSE LET head == Split(parts[1], ",")
             kind == IF head[1] = <<"meter_usage">> THEN "meter_usage" ELSE "generation_output"
             tags == Pairs(Tail(head))
             fields == Pairs(Split(parts[2], ","))
             known == {"event_id", IdentityKey(kind), MetricKey(kind)}
                          \cup Range(OptTagKeys(kind)) \cup Range(OptFieldKeys(kind))
         IN IF \/ head[1] \notin {<<"meter_usage">>, <<"generation_output">>}
               \/ \E e \in Range(tags) \cup Range(fields) :
                      Len(e.key) # 1 \/ e.key[1] \notin known
               \/ Lookup(tags, IdentityKey(kind)) = None
               \/ Lookup(fields, MetricKey(kind)) = None
            THEN Malformed
            ELSE [record |-> kind,
                  ts |-> parts[3],
                  id |-> unwrap(Lookup(tags, IdentityKey(kind))),
                  tags |-> [i \in 1 .. Len(OptTagKeys(kind)) |->
                               Lookup(tags, OptTagKeys(kind)[i])],
                  metric |-> unwrap(Lookup(fields, MetricKey(kind))),
                  fields |-> [i \in 1 .. Len(OptFieldKeys(kind)) |->
                                 Lookup(fields, OptFieldKeys(kind)[i])]]

\* The record with its numbers in the text form the line carries.
AsText(p) ==
    [record |-> p.record,
     ts |-> <<ToString(p.ts)>>,
     id |-> p.id,
     tags |-> p.tags,
     metric |-> <<ToString(p.metric)>>,
     fields |-> [i \in 1 .. Len(p.fields) |->
                    IF is_some(p.fields[i]) THEN Some(<<ToString(unwrap(p.fields[i]))>>)
                    ELSE None]]

\* The batch made of the records encoded so far, and its text.
EncodedBatch == [i \in 1 .. Len(vresult) |-> venv.payload]

RoundTrips ==
    LET lines == DecodeLines(encode_batch_text(EncodedBatch)) IN
    /\ Len(lines) = Len(vresult)
    /\ \A i \in 1 .. Len(lines) :
           /\ lines[i] = vresult[i].line
           /\ decode(lines[i]) = AsText(venv.payload)

\* C27: for every record, whatever the strings in its tag fields, the encoded
\* batch decodes to as many lines as it has records, and each line decodes to
\* the record: its required fields and exactly the optional ones present.
C27_DecodeRoundTrip == RoundTrips

\* A string that holds a line feed, or ends with a backslash.
Breaks(str) == "\n" \in Range(str) \/ (str # <<>> /\ Last(str) = "\\")

TagStrings(p) == {p.id} \cup {unwrap(p.tags[i]) : i \in {j \in 1 .. Len(p.tags) : is_some(p.tags[j])}}

\* What encode_batch does guarantee: the round trip for the records none of
\* whose tag values holds a line feed or ends with a backslash.
C27_RoundTripUnbroken ==
    (\A str \in TagStrings(venv.payload) : ~Breaks(str)) => RoundTrips

C27_LineFeedSplitsLine ==
    /\ Len(vresult) = 1
    /\ venv.payload.id = <<"a", "\n">>
    /\ Len(DecodeLines(encode_batch_text(EncodedBatch))) = 2

C27_BackslashJoinsTags ==
    /\ Len(vresult) = 1
    /\ venv.payload.id = <<"a", "\\">>
    /\ Len(DecodeLines(encode_batch_text(EncodedBatch))) = 1
    /\ decode(vresult[1].line) # AsText(venv.payload)

\* ---------------------------------------------------------------- C28
\* The rows the recompute job has written.
BalanceRows == IF vresult.done THEN vresult.rows ELSE {}

\* A topology event of the feeder at the row's instant.
TopologyEventAt(row) ==
    \E e \in venv.topology_events : e.ts = row.ts /\ e.feeder_id = row.feeder_id

\* A meter event of one of the four theft types at the row's instant, of a
\* meter mapped to the row's feeder at that instant.
TheftEventAt(row) ==
    \E e \in venv.meter_events :
        /\ e.ts = row.ts
        /\ e.event_type \in {"tamper", "reverse_run", "magnetic", "theft_suspect"}
        /\ \E m \in venv.meter_feeder_map :
               /\ m.meter_id = e.meter_id /\ m.feeder_id = row.feeder_id
               /\ m.from_ts <= e.ts /\ e.ts < m.to_ts

FirstMatchingRule(row) ==
    IF row.feeder_kwh_gen = 0 THEN "unknown"
    ELSE IF LessThan(row.meter_coverage_pct, 90) THEN "data"
    ELSE IF TopologyEventAt(row) THEN "topology"
    ELSE IF TheftEventAt(row) THEN "theft"
    ELSE IF AbsAtMost(row.loss_pct, 5) THEN "physics"
    ELSE "unknown"

SameQuot(a, b) == a.null = b.null /\ (~a.null => a.n * b.d = b.n * a.d)

\* The example of the claim: 100 kWh generated, 97 kWh demanded, no events.
IsExample(row) ==
    /\ row.feeder_kwh_gen = 100 /\ row.feeder_kwh_demand = 97
    /\ ~TopologyEventAt(row) /\ ~TheftEventAt(row)
    /\ ~LessThan(row.meter_coverage_pct, 90)

\* C29: in every row loss_kwh is generation less demand, loss_pct is NULL
\* exactly when generation is 0 and loss_kwh over generation otherwise, and
\* alert is true exactly when generation is not 0 and the loss exceeds 2
\* percent either way; the example row has loss_pct 0.03, an alert and the
\* cause physics.
C29_LossAndAlert ==
    \A row \in BalanceRows :
        /\ row.loss_kwh = row.feeder_kwh_gen - row.feeder_kwh_demand
        /\ row.loss_pct.null <=> row.feeder_kwh_gen = 0
        /\ row.feeder_kwh_gen # 0 =>
               SameQuot(row.loss_pct, Quot(row.loss_kwh, row.feeder_kwh_gen))
        /\ row.alert <=> (row.feeder_kwh_gen # 0 /\ AbsOver(row.loss_pct, 2))
        /\ IsExample(row) =>
               /\ SameQuot(row.loss_pct, Quot(3, 100))
               /\ row.alert
               /\ row.cause_hint = "physics"

\* The example row has been written.
C29_Witness == \E row \in BalanceRows : IsExample(row) /\ row.alert

\* ---------------------------------------------------------------- C30
\* The distinct meters mapped to the row's feeder at the row's instant, and
\* those of them with a reading at that instant.
MappedAt(row) ==
    {m.meter_id : m \in {x \in venv.meter_feeder_map :
                            /\ x.feeder_id = row.feeder_id
                            /\ x.from_ts <= row.ts /\ row.ts < x.to_ts}}

ReadAt(row) ==
    {id \in MappedAt(row) : \E u \in venv.meter_usage : u.meter_id = id /\ u.ts = row.ts}

\* C30: in every row of a feeder with mapped meters, meter_coverage_pct is
\* the number of mapped meters with a reading at the row's instant over the
\* number of mapped meters.
C30_CoverageRatio ==
    \A row \in BalanceRows :
        MappedAt(row) # {} =>
            SameQuot(row.meter_coverage_pct,
                     Quot(Cardinality(ReadAt(row)), Cardinality(MappedAt(row))))

\* What the query computes instead: a coverage of 1 in every row.
C30_CoverageAlwaysFull ==
    \A row \in BalanceRows : SameQuot(row.meter_coverage_pct, Quot(1, 1))

\* A row of a feeder with a mapped meter that has no reading at the row's
\* instant, written with a coverage of 1.
C30_MissingReadingFullCoverage ==
    \E row \in BalanceRows :
        /\ ReadAt(row) # MappedAt(row)
        /\ SameQuot(row.meter_coverage_pct, Quot(1, 1))

\* ---------------------------------------------------------------- C31
\* The calls of stream() after the first.
LaterCalls == {i \in 1 .. Len(vresult.calls) : i > 1}

\* C31: on every source variant the first call of stream() gets the stream,
\* every later call is rejected, and no second stream of envelopes exists.
C31_ConsumedOnce ==
    /\ Len(vresult.calls) >= 1 => vresult.calls[1] = "stream"
    /\ \A i \in LaterCalls : vresult.calls[i] = "panic"
    /\ Len(vresult.streams) <= 1

\* The same of the two HTTP sources only.
C31_HttpConsumedOnce == venv.variant \in HttpVariants => C31_ConsumedOnce

\* A file source has handed out two streams and both have yielded the
\* envelope of the file's first line.
C31_FileReadTwice ==
    /\ venv.variant \notin HttpVariants
    /\ Len(vresult.streams) = 2
    /\ \A i \in 1 .. 2 : vresult.streams[i].yielded >= 1

\* The second call on an HTTP source has panicked.
C31_HttpSecondCallPanics ==
    /\ venv.variant \in HttpVariants
    /\ Len(vresult.calls) = 2 /\ vresult.calls[2] = "panic"

\* ---------------------------------------------------------------- C32
\* A step in which the run of pipeline p returns an error.
ReturnsError(p) == venv[p].run = "running" /\ venv'[p].run = "Sink"

C32_Step ==
    /\ \A p \in PipelineNames : ReturnsError(p) => vresult' = "failure"
    /\ vresult' = "success" => \A p \in PipelineNames : venv'[p].run = "Ok"
    /\ vresult' = "failure" => \E p \in PipelineNames : venv'[p].run = "Sink"

\* C32: the two pipelines run side by side; the step in which either run
\* returns an error ends the process with a failure, whatever the other
\* pipeline is doing, and the process ends with success only when both runs
\* have returned Ok.
C32_FailFast == [][C32_Step]_vars

\* Both pipelines had taken envelopes, one failed, and the process ended with
\* a failure while the other was still running.
C32_Witness ==
    /\ vresult = "failure"
    /\ \E p \in PipelineNames :
         /\ venv[p].run = "Sink"
         /\ venv[Other(p)].run = "dropped" /\ venv[Other(p)].taken >= 1

\* ---------------------------------------------------------------- C33
\* The sink tasks of the run: the SQL sink's one task, or the ILP workers.
SinkTasks == {t \in Tasks : pc[t] # "off"}

\* The input of task t has ended: the stream, or the worker's channel.
InputEnded(t) == IF cfg.sink = "ilp" THEN ~txOpen /\ chan[t] = <<>> ELSE srcEnded

\* The batches of the successful flushes of task t, in order.
OkBatches(t) == SelectSeq(log[t], LAMBDA e : e.ok)

C33_State ==
    \A t \in SinkTasks :
        /\ Len(buffer[t]) <= cfg.batch_size
        /\ pc[t] = "flush" => Len(buffer[t]) = cfg.batch_size
        /\ pc[t] = "final_flush" => buffer[t] # <<>> /\ InputEnded(t)
        /\ pc[t] = "recv" => Len(buffer[t]) < cfg.batch_size
        /\ \A i \in 1 .. Len(OkBatches(t)) :
               /\ i < Len(OkBatches(t)) =>
                      Cardinality(BatchEnvs(OkBatches(t)[i].batch)) = cfg.batch_size
               /\ Len(OkBatches(t)[i].batch) <= cfg.batch_size
               /\ \A u \in SinkTasks : \A j \in 1 .. Len(OkBatches(u)) :
                      <<t, i>> # <<u, j>> =>
                          BatchEnvs(OkBatches(t)[i].batch)
                              \cap BatchEnvs(OkBatches(u)[j].batch) = {}

\* A flush in the loop of run() has succeeded in this step.
LoopFlushOk(t) ==
    pc[t] = "flush" /\ Len(log'[t]) > Len(log[t]) /\ Last(log'[t]).ok

C33_Step == \A t \in SinkTasks : LoopFlushOk(t) => buffer'[t] = <<>> /\ pc'[t] = "recv"

\* C33: with batch_size >= 1 a sink's buffer never holds more than batch_size
\* envelopes; a flush runs exactly when the buffer holds batch_size envelopes
\* or the input has ended over a non-empty buffer; a successful flush in the
\* loop empties the buffer; every successfully flushed batch but the last of
\* a sink has batch_size envelopes and no envelope is in two of them.
C33_BatchBound == []C33_State /\ [][C33_Step]_vars

\* A sink has flushed a full batch of more than one envelope and then a
\* smaller residual batch.
C33_Witness ==
    \E t \in SinkTasks :
        /\ Len(OkBatches(t)) = 2 /\ cfg.batch_size > 1
        /\ Len(OkBatches(t)[1].batch) = cfg.batch_size
        /\ Len(OkBatches(t)[2].batch) < cfg.batch_size

\* ---------------------------------------------------------------- C34
\* The INSERTs of the SQL sink, in the order it started them.
Inserts == IF cfg.sink = "pgwire" THEN log[0] ELSE <<>>

\* C34: in the SQL sinks the INSERT that follows a failed INSERT sends the
\* same envelopes in the same order, and an INSERT of other envelopes is
\* started only after the INSERT before it has succeeded; the envelopes of an
\* INSERT are those of the buffer, in buffer order.
C34_RetrySameBatch ==
    /\ \A i \in 1 .. Len(Inserts) - 1 :
           /\ ~Inserts[i].ok => Inserts[i + 1].batch = Inserts[i].batch
           /\ Inserts[i + 1].batch # Inserts[i].batch => Inserts[i].ok
           /\ Inserts[i].ok =>
                  Range(Inserts[i].batch) \cap Range(Inserts[i + 1].batch) = {}
    /\ cfg.sink = "pgwire" /\ InFlush(0) /\ attempt[0] > 0 =>
           Last(Inserts).batch = buffer[0] /\ ~Last(Inserts).ok

\* A batch of more than one envelope failed, was sent again and succeeded,
\* and the next batch was started after it.
C34_Witness ==
    /\ Len(Inserts) = 3
    /\ ~Inserts[1].ok /\ Len(Inserts[1].batch) > 1
    /\ Inserts[2].ok /\ Inserts[3].batch # Inserts[2].batch

\* ---------------------------------------------------------------- C35
\* Envelope id came out of the transforms as Ok.
PassedValidation(id) == emitted[id].kind = "ok" /\ id \notin rejected

\* Envelope id was in a write that succeeded.
InOkWrite(id) ==
    \E t \in Tasks : \E j \in 1 .. Len(log[t]) :
        log[t][j].ok /\ id \in BatchEnvs(log[t][j].batch)

\* Worker w is a worker of the parallel ILP sink that returned Ok.
WorkerOk(w) == cfg.sink = "ilp" /\ w < Workers /\ wres[w] = "Ok"

\* C35: when run returns Ok every envelope that passed validation was part of
\* a successful flush, and an ILP worker that returned Ok (its channel closed
\* and drained) has flushed every envelope of its shard, residual buffer
\* included; no sink returns Ok over a non-empty buffer.
C35_ResidualFlushed ==
    /\ result = "Ok" =>
           \A id \in 1 .. Len(emitted) : PassedValidation(id) => InOkWrite(id)
    /\ \A w \in Tasks : WorkerOk(w) =>
           \A id \in 1 .. Len(emitted) :
               PassedValidation(id) /\ shard_index(shard_key(emitted[id]), Workers) = w
                   => InOkWrite(id)
    /\ \A t \in Tasks : pc[t] = "shutdown" =>
           \A i \in 1 .. Len(buffer[t]) : InOkWrite(buffer[t][i])

\* run returned Ok after a sink flushed a residual buffer smaller than
\* batch_size.
C35_Witness ==
    /\ result = "Ok"
    /\ \E t \in Tasks :
         /\ log[t] # <<>> /\ Last(log[t]).ok
         /\ Len(Last(log[t]).batch) < cfg.batch_size

\* ---------------------------------------------------------------- C36
\* Envelope id has come out of an HTTP source's stream and passed validation.
Enqueued(id) == cfg.source = "http" /\ id <= Len(emitted) /\ PassedValidation(id)

\* C36: under fair scheduling every envelope that an HTTP request enqueued
\* and that passed validation is eventually in a successful write, or the
\* sink fails fatally.
C36_EventuallyWritten ==
    \A id \in 1 .. MaxItems : Enqueued(id) ~> (InOkWrite(id) \/ AnyFatal)

\* Envelope id waits in the buffer of a sink task that is polling its input,
\* with fewer than batch_size envelopes in the buffer.
WaitsInPartialBuffer(id) ==
    \E t \in Tasks :
        /\ pc[t] = "recv" /\ id \in Range(buffer[t])
        /\ Len(buffer[t]) < cfg.batch_size

\* What holds instead: the envelope is eventually written, or the sink fails
\* fatally, or the envelope stays in a partial buffer for as long as nothing
\* more arrives.
C36_WrittenOrWaiting ==
    \A id \in 1 .. MaxItems :
        Enqueued(id) ~> (InOkWrite(id) \/ AnyFatal \/ WaitsInPartialBuffer(id))

\* No request arrives any more, no sink has failed, and an envelope sits
\* unwritten in a partial buffer.
C36_StuckInBuffer ==
    /\ cfg.source = "http" /\ Len(emitted) = MaxItems /\ ~AnyFatal
    /\ ~ENABLED Next
    /\ \E id \in 1 .. MaxItems :
           Enqueued(id) /\ WaitsInPartialBuffer(id) /\ ~InOkWrite(id)

\* ---------------------------------------------------------------- C37
\* An ILP worker has returned a fatal error while the coordinator still reads
\* the input stream.
WorkerFailedStreamOpen ==
    /\ cfg.sink = "ilp" /\ ~srcEnded
    /\ \E w \in Tasks : wres[w] = "Sink"

\* C37: once an ILP worker has ended with a fatal error while the input
\* stream is open, the parallel ILP sink eventually returns a fatal error.
C37_WorkerFailurePropagates == WorkerFailedStreamOpen ~> (result = "Sink")

\* The same where the stream ends: the failure surfaces at the join.
C37_PropagatesAtStreamEnd ==
    (WorkerFailedStreamOpen /\ cfg.source = "backfill") ~> (result = "Sink")

\* A worker has failed, the stream of the HTTP source is open and yields
\* nothing more, the other tasks have nothing to do, and run has not
\* returned.
C37_FailureUnnoticed ==
    /\ WorkerFailedStreamOpen /\ cfg.source = "http"
    /\ result = "running" /\ ~ENABLED Next

\* ---------------------------------------------------------------- C38
\* The parallel ILP sink is running and holds work: the coordinator holds an
\* undelivered envelope, or a worker holds envelopes it has not flushed.
HoldsWork ==
    /\ cfg.sink = "ilp" /\ result = "running"
    /\ \/ held # NoEnv
       \/ \E w \in Tasks : buffer[w] # <<>> \/ chan[w] # <<>>

\* A task of the sink can take a step.  The coordinator polling the input
\* stream is not blocked by any task of the sink: it takes its step when the
\* stream yields.
CanStep ==
    \/ cpc = "recv"
    \/ ENABLED CoordSend \/ ENABLED CoordJoin
    \/ \E w \in Tasks :
           \/ ENABLED WorkerConnect(w) \/ ENABLED WorkerRecv(w)
           \/ ENABLED WorkerFlush(w) \/ ENABLED WorkerShutdown(w)

\* A suspended send is woken by its worker: the worker can take a step, or
\* its channel is closed and the send returns the error.
SendNotStuck ==
    cfg.sink = "ilp" /\ cpc = "send" =>
        LET idx == shard_index(shard_key(emitted[held]), Workers) IN
            \/ ENABLED CoordSend
            \/ ENABLED WorkerConnect(idx) \/ ENABLED WorkerRecv(idx)
            \/ ENABLED WorkerFlush(idx)

Ndjson(h) == req[h].endpoint = "ndjson" /\ hpc[h] # "idle"

\* The statuses that end an NDJSON request before the end of its body.
EarlyEnd == {400, 413, 429}

C39_State ==
    \A h \in Handlers : Ndjson(h) =>
        /\ accepted[h] + parse_errors[h] <= hcfg.max_request_records
        /\ accepted[h] + parse_errors[h] <= Len(NonBlank(h))
        /\ rxAlive => Len(QueuedBy(h)) + Len(DeliveredOf(h)) = accepted[h]

C39_Step ==
    \A h \in Handlers : Ndjson(h) =>
        /\ (\E code \in EarlyEnd : Answers(h, code)) =>
               queue' = queue /\ delivered' = delivered /\ accepted'[h] = accepted[h]
        /\ (Len(seen'[h]) > Len(seen[h]) /\ Last(seen'[h]).len = 0) =>
               /\ accepted'[h] = accepted[h] /\ parse_errors'[h] = parse_errors[h]
               /\ queue' = queue /\ hpc'[h] = hpc[h]

\* C39: the step that ends an NDJSON request with 400, 413 or 429 leaves the
\* queue as it is, so every envelope the request enqueued before is still
\* queued or was delivered; accepted + parse_errors never exceeds
\* max_request_records, and a blank line changes neither counter.
C39_EarlyEndKeepsQueue == []C39_State /\ [][C39_Step]_vars

\* An NDJSON request ended early after it had enqueued an envelope that is
\* still in the queue.
C39_Witness ==
    \E h \in Handlers :
        /\ Ndjson(h) /\ status[h] \in EarlyEnd
        /\ accepted[h] >= 1 /\ QueuedBy(h) # <<>>

\* ---------------------------------------------------------------- C40
\* The same input run twice leaves what one run leaves.
C40_Idempotent ==
    (vresult.step = "done" /\ vresult.runs = MaxRuns) => vresult.table = vresult.first

\* C40: the recompute is all-or-nothing: after an INSERT that failed behind
\* the TRUNCATE the table holds the rows it held when the job started; and a
\* second run on unchanged input tables leaves the rows of the first.
C40_AllOrNothing ==
    /\ vresult.step = "failed_insert" => vresult.table = vresult.before
    /\ C40_Idempotent

\* The INSERT has failed and the rows the table held before the job are gone.
C40_RowsLost ==
    /\ vresult.step = "failed_insert"
    /\ vresult.before # EmptyTable /\ vresult.table = EmptyTable

\* The job has run twice to its end on input that gives a row.
C40_RunTwice ==
    /\ vresult.step = "done" /\ vresult.runs = MaxRuns
    /\ vresult.table # EmptyTable

=============================================================================
